---- MODULE Spec2Model ----
(***************************************************************************)
(* Model of monochromegane/stamp: the Stamper of internal/stamp.           *)
(*                                                                         *)
(* Strings that the code inspects by suffix (paths, the template           *)
(* extension) are sequences of one-character strings, so HasSuffix and     *)
(* TrimSuffix are computed character by character.  File contents are      *)
(* sequences of chunks.  A parsed template is a tree of records, one       *)
(* record shape per node type of text/template/parse.                      *)
(*                                                                         *)
(* Five specifications share the variables:                                 *)
(*   Spec          a run of Stamper.ExecuteMultiple over layered sheets    *)
(*   SpecClassify  processFile's choice of handler for one path            *)
(*   SpecExtract   extractTemplateVars on one parsed template              *)
(*   SpecPress     the press command building the Stamper's variables      *)
(*   SpecTwice     ExecuteMultiple called again on the destination it left *)
(***************************************************************************)
EXTENDS Integers, Sequences, FiniteSets, TLC

VARIABLES
    stamper,     \* the *Stamper: [templateVars, templateExt]
    srcDirs,     \* ExecuteMultiple's srcDirs: the ordered sheets
    fs,          \* the file system under and including the destination
    fs0,         \* fs when ExecuteMultiple was called
    press,       \* the press command building the variables for the stamper
    pc,          \* where ExecuteMultiple is
    layer,       \* i+1 of the loop over srcDirs (0 before the loop)
    walk,        \* the entries the current filepath.Walk passes to its callback
    walkPos,     \* how many entries of the current filepath.Walk are done
    varUsage,    \* validateMultipleTemplateVars' varUsage map
    err,         \* the error ExecuteMultiple returns ([kind |-> "nil"]: none)
    runs,        \* the calls of ExecuteMultiple on the destination so far
    handles,     \* the destination's *os.File handles: open now, most open at once
    cpath,       \* SpecClassify: the srcPath given to processFile
    chandler,    \* SpecClassify: the handler processFile called
    cscanned,    \* SpecClassify: collectTemplateVars' callback extracts from it
    tree,        \* SpecExtract: the tree.Root parse returned
    nesting,     \* SpecExtract: the nesting depth of tree
    extracted,   \* SpecExtract: extractTemplateVars' result
    cext         \* SpecClassify: the ext given to New

vars == <<stamper, srcDirs, fs, fs0, press, runs, handles, pc, layer, walk, walkPos, varUsage, err,
          runs, handles, cpath, chandler, cscanned, tree, nesting, extracted, cext>>

(***************************************************************************)
(* Bounds                                                                  *)
(***************************************************************************)
\* sheets per run
MaxLayers == 2
\* files over all the sheets of a run
MaxFiles == 2
\* nesting depth of if/range/with in an extracted template
MaxDepth == 2
\* suffixes appended to a base name in a classified path
MaxSuffixes == 2
\* calls of ExecuteMultiple on one destination
MaxRuns == 2

(***************************************************************************)
(* Strings                                                                 *)
(***************************************************************************)
Range(s) == {s[i] : i \in DOMAIN s}

\* strings.HasSuffix
HasSuffix(s, suffix) ==
    /\ Len(s) >= Len(suffix)
    /\ SubSeq(s, Len(s) - Len(suffix) + 1, Len(s)) = suffix

\* strings.TrimSuffix
TrimSuffix(s, suffix) ==
    IF HasSuffix(s, suffix) THEN SubSeq(s, 1, Len(s) - Len(suffix)) ELSE s

\* ".noop"
NoopExt == <<".", "n", "o", "o", "p">>
\* ".stamp"
DefaultExt == <<".", "s", "t", "a", "m", "p">>
\* ".tmpl", the extension of the package's tests
TmplExt == <<".", "t", "m", "p", "l">>

\* The characters the model's names use, in byte order ('.' 46, '/' 47, letters).
Alphabet ==
    <<".", "/", "a", "b", "c", "d", "e", "f", "g", "h", "l", "m", "n", "o", "p",
      "s", "t", "x", "y">>

Code(c) == CHOOSE i \in DOMAIN Alphabet : Alphabet[i] = c

\* the reverse of the byte-wise order
RECURSIVE StrLessReversed(_, _)
StrLessReversed(a, b) ==
    IF b = <<>> THEN a # <<>>
    ELSE IF a = <<>> THEN FALSE
    ELSE IF a[1] # b[1] THEN Code(a[1]) > Code(b[1])
    ELSE StrLessReversed(Tail(a), Tail(b))

\* Byte-wise string order, as sort.Strings uses it.
RECURSIVE StrLess(_, _)
StrLess(a, b) ==
    IF a = <<>> THEN b # <<>>
    ELSE IF b = <<>> THEN FALSE
    ELSE IF a[1] # b[1] THEN Code(a[1]) < Code(b[1])
    ELSE StrLess(Tail(a), Tail(b))

(***************************************************************************)
(* Stamper and the choice of handler (stamp.go)                            *)
(***************************************************************************)
NewNoDefault(tvars, ext) == [templateVars |-> tvars, templateExt |-> ext]

New(tvars, ext) ==
    [templateVars |-> tvars,
     templateExt  |-> IF ext = <<>> THEN DefaultExt ELSE ext]

isTmplNoopFile(s, path) == HasSuffix(path, s.templateExt \o NoopExt)

removeNoopExtension(path) ==
    IF HasSuffix(path, NoopExt) THEN TrimSuffix(path, NoopExt) ELSE path

removeTemplateExtension(s, path) ==
    IF HasSuffix(path, s.templateExt) THEN TrimSuffix(path, s.templateExt) ELSE path

\* processFile with the two suffix tests in the other order
processFileTemplateFirst(s, srcPath) ==
    IF HasSuffix(srcPath, s.templateExt) THEN "processTemplate"
    ELSE IF isTmplNoopFile(s, srcPath) THEN "processTmplNoop"
    ELSE "copyFile"

\* The handler processFile gives the file to.
processFile(s, srcPath) ==
    IF isTmplNoopFile(s, srcPath) THEN "processTmplNoop"
    ELSE IF HasSuffix(srcPath, s.templateExt) THEN "processTemplate"
    ELSE "copyFile"

(***************************************************************************)
(* Parsed templates: the nodes of text/template/parse that walkNode meets  *)
(***************************************************************************)
Nil == [type |-> "Nil"]

TextNode(text) == [type |-> "Text", Text |-> text]
FieldNode(ident) == [type |-> "Field", Ident |-> ident]
VariableNode(ident) == [type |-> "Variable", Ident |-> ident]
DotNode == [type |-> "Dot"]
StringNode(text) == [type |-> "String", Text |-> text]
IdentifierNode(name) == [type |-> "Identifier", Name |-> name]
\* a parenthesised pipeline (or a call) followed by fields: (.a).b
ChainNode(node, field) == [type |-> "Chain", Node |-> node, Field |-> field]
CommandNode(args) == [type |-> "Command", Args |-> args]
PipeNode(cmds) == [type |-> "Pipe", Cmds |-> cmds]
ActionNode(pipe) == [type |-> "Action", Pipe |-> pipe]
ListNode(nodes) == [type |-> "List", Nodes |-> nodes]
BranchNode(type, pipe, list, elseList) ==
    [type |-> type, Pipe |-> pipe, List |-> list, ElseList |-> elseList]
TemplateNode(name, pipe) == [type |-> "Template", Name |-> name, Pipe |-> pipe]

BranchTypes == {"If", "Range", "With"}

\* {{arg}}: a pipeline of one command with one argument
Pipe1(arg) == PipeNode(<<CommandNode(<<arg>>)>>)

(***************************************************************************)
(* Variable extraction (validator.go)                                      *)
(***************************************************************************)
RECURSIVE walkNode(_)
RECURSIVE walkBranchNode(_)

\* the FieldNode case recording every segment of the Ident
fieldVarsAllSegments(node) == Range(node.Ident)

\* case *parse.FieldNode: the first field of .name or .org.repo
fieldVars(node) == IF Len(node.Ident) > 0 THEN {node.Ident[1]} ELSE {}

\* The set of names walkNode adds to *vars for node.
walkNode(node) ==
    CASE node.type = "Field" -> fieldVars(node)
      [] node.type = "List" ->
            UNION {walkNode(node.Nodes[i]) : i \in DOMAIN node.Nodes}
      [] node.type = "Action" ->
            IF node.Pipe # Nil THEN walkNode(node.Pipe) ELSE {}
      [] node.type = "Pipe" ->
            UNION {walkNode(node.Cmds[i]) : i \in DOMAIN node.Cmds}
      [] node.type = "Command" ->
            UNION {walkNode(node.Args[i]) : i \in DOMAIN node.Args}
      [] node.type \in BranchTypes -> walkBranchNode(node)
      [] node.type = "Template" ->
            IF node.Pipe # Nil THEN walkNode(node.Pipe) ELSE {}
      [] OTHER -> {}

\* walkBranchNode leaving out the body of a with or a range, where dot is
\* the block's value
walkBranchNodeScoped(branch) ==
    (IF branch.Pipe # Nil THEN walkNode(branch.Pipe) ELSE {})
    \cup (IF branch.List # Nil /\ branch.type = "If" THEN walkNode(branch.List) ELSE {})
    \cup (IF branch.ElseList # Nil THEN walkNode(branch.ElseList) ELSE {})

walkBranchNode(branch) ==
    (IF branch.Pipe # Nil THEN walkNode(branch.Pipe) ELSE {})
    \cup (IF branch.List # Nil THEN walkNode(branch.List) ELSE {})
    \cup (IF branch.ElseList # Nil THEN walkNode(branch.ElseList) ELSE {})

\* sort.Strings on the keys of a set of one-character names
RECURSIVE SortStrings(_)
SortStrings(S) ==
    IF S = {} THEN <<>>
    ELSE LET m == CHOOSE v \in S : \A w \in S : Code(v) <= Code(w)
         IN  <<m>> \o SortStrings(S \ {m})

\* The part of extractTemplateVars after a successful parse.
varsOfTree(root) == SortStrings(IF root # Nil THEN walkNode(root) ELSE {})

\* The errors ExecuteMultiple returns: what failed, the 1-based position of the
\* sheet named in the message (0: none) and the src path of the loop at that
\* position (in the message, or in the wrapped *PathError of os.Stat), the
\* wrapped cause, and MissingVars.
Error(kind, i, cause, missing) ==
    [kind |-> kind, layer |-> i,
     src |-> IF i = 0 THEN <<>> ELSE srcDirs[i].name,
     cause |-> cause, MissingVars |-> missing]

NoError == Error("nil", 0, "", <<>>)

(***************************************************************************)
(* Template contents, text/template's Parse and Execute                    *)
(***************************************************************************)
\* v={{.x}}
SrcField == <<"v=", "{{.x}}">>
\* {{if .x}}A{{else}}{{.y}}{{end}}
SrcIf == <<"{{if .x}}", "A", "{{else}}", "{{.y}}", "{{end}}">>
\* p{{.x.y}}
SrcChained == <<"p", "{{.x.y}}">>
\* {{.x     (the action is not closed)
SrcMalformed == <<"{{.x">>
\* w{{with .x}}{{.y}}{{end}}
SrcWith == <<"w", "{{with .x}}", "{{.y}}", "{{end}}">>
\* {{define "t"}}t={{.y}}{{end}}{{template "t" .}}
SrcDefine == <<"{{define \"t\"}}", "t=", "{{.y}}", "{{end}}", "{{template \"t\" .}}">>

\* What Parse returns for the contents the sheets hold: the tree of the
\* template named after the file, and the trees of the templates it defines
\* (the treeSet of parse.Parse, the common templates of template.Parse).
Parse(data) ==
    CASE data = SrcField ->
            [err |-> FALSE, Defs |-> <<>>,
             Root |-> ListNode(<<TextNode("v="),
                                 ActionNode(Pipe1(FieldNode(<<"x">>)))>>)]
      [] data = SrcIf ->
            [err |-> FALSE, Defs |-> <<>>,
             Root |-> ListNode(<<BranchNode("If", Pipe1(FieldNode(<<"x">>)),
                          ListNode(<<TextNode("A")>>),
                          ListNode(<<ActionNode(Pipe1(FieldNode(<<"y">>)))>>))>>)]
      [] data = SrcChained ->
            [err |-> FALSE, Defs |-> <<>>,
             Root |-> ListNode(<<TextNode("p"),
                                 ActionNode(Pipe1(FieldNode(<<"x", "y">>)))>>)]
      [] data = SrcMalformed -> [err |-> TRUE, Defs |-> <<>>, Root |-> Nil]
      [] data = SrcWith ->
            [err |-> FALSE, Defs |-> <<>>,
             Root |-> ListNode(<<TextNode("w"),
                          BranchNode("With", Pipe1(FieldNode(<<"x">>)),
                              ListNode(<<ActionNode(Pipe1(FieldNode(<<"y">>)))>>),
                              Nil)>>)]
      [] data = SrcDefine ->
            [err |-> FALSE,
             Defs |-> [n \in {"t"} |->
                          ListNode(<<TextNode("t="),
                                     ActionNode(Pipe1(FieldNode(<<"y">>)))>>)],
             Root |-> ListNode(<<TemplateNode("t", Pipe1(DotNode))>>)]

\* The values a pipeline has: the map[string]string given to Execute, or a
\* string.
MapValue(m) == [kind |-> "map", m |-> m, s |-> ""]
StringValue(str) == [kind |-> "string", m |-> <<>>, s |-> str]

\* text/template's truth of a value: a map or a string that is not empty
IsTrue(val) == IF val.kind = "map" THEN DOMAIN val.m # {} ELSE val.s # ""

\* The value of a pipeline of one argument, dot or a field, against dot.  A
\* field of a map[string]string is the key's value, the zero value "" for a
\* key the map lacks; a field cannot be evaluated on a string, so neither
\* can a second segment.
EvalPipe(pipe, dot) ==
    LET arg == pipe.Cmds[1].Args[1] IN
    IF arg.type = "Dot" THEN [err |-> FALSE, val |-> dot]
    ELSE IF dot.kind # "map" \/ Len(arg.Ident) > 1
    THEN [err |-> TRUE, val |-> StringValue("")]
    ELSE [err |-> FALSE,
          val |-> StringValue(IF arg.Ident[1] \in DOMAIN dot.m
                              THEN dot.m[arg.Ident[1]] ELSE "")]

\* what printing a value writes
Printed(val, out) ==
    IF val.kind = "map" THEN Append(out, "map[]")
    ELSE IF val.s = "" THEN out ELSE Append(out, val.s)

\* Template.Execute writing to the destination file: the output written so
\* far is kept when an action fails.  with rebinds dot for its body, and
\* template runs the defined template with its argument as dot.
RECURSIVE ExecNodes(_, _, _, _)
ExecNodes(nodes, dot, defs, out) ==
    IF nodes = <<>> THEN [err |-> FALSE, out |-> out]
    ELSE LET n == Head(nodes) IN
         CASE n.type = "Text" ->
                ExecNodes(Tail(nodes), dot, defs, Append(out, n.Text))
           [] n.type = "Action" ->
                LET v == EvalPipe(n.Pipe, dot) IN
                IF v.err THEN [err |-> TRUE, out |-> out]
                ELSE ExecNodes(Tail(nodes), dot, defs, Printed(v.val, out))
           [] n.type = "If" ->
                LET v == EvalPipe(n.Pipe, dot) IN
                IF v.err THEN [err |-> TRUE, out |-> out]
                ELSE LET arm == IF IsTrue(v.val) THEN n.List ELSE n.ElseList
                         r == IF arm = Nil THEN [err |-> FALSE, out |-> out]
                              ELSE ExecNodes(arm.Nodes, dot, defs, out)
                     IN  IF r.err THEN r ELSE ExecNodes(Tail(nodes), dot, defs, r.out)
           [] n.type = "With" ->
                LET v == EvalPipe(n.Pipe, dot) IN
                IF v.err THEN [err |-> TRUE, out |-> out]
                ELSE LET r == IF IsTrue(v.val)
                              THEN ExecNodes(n.List.Nodes, v.val, defs, out)
                              ELSE IF n.ElseList = Nil THEN [err |-> FALSE, out |-> out]
                              ELSE ExecNodes(n.ElseList.Nodes, dot, defs, out)
                     IN  IF r.err THEN r ELSE ExecNodes(Tail(nodes), dot, defs, r.out)
           [] n.type = "Template" ->
                IF n.Name \notin DOMAIN defs THEN [err |-> TRUE, out |-> out]
                ELSE LET v == EvalPipe(n.Pipe, dot) IN
                     IF v.err THEN [err |-> TRUE, out |-> out]
                     ELSE LET r == ExecNodes(defs[n.Name].Nodes, v.val, defs, out)
                          IN  IF r.err THEN r
                              ELSE ExecNodes(Tail(nodes), dot, defs, r.out)

\* tmpl.Execute(destFile, s.templateVars) of the parsed template t
Execute(t, tvars) == ExecNodes(t.Root.Nodes, MapValue(tvars), t.Defs, <<>>)

\* extractTemplateVars: a file that cannot be read or parsed gives an error.
extractTemplateVars(file) ==
    IF ~file.readable THEN [err |-> TRUE, vars |-> <<>>]
    ELSE LET t == Parse(file.data) IN
         IF t.err THEN [err |-> TRUE, vars |-> <<>>]
         ELSE [err |-> FALSE, vars |-> varsOfTree(t.Root)]

(***************************************************************************)
(* Paths, sheets and filepath.Walk                                         *)
(***************************************************************************)
\* the destination directory
DestRoot == <<"D">>

Digits == <<"1", "2", "3", "4">>

\* the directory of the i-th sheet
SheetName(i) == <<"s", Digits[i]>>

\* A relative path is the sequence of its names; its string joins them with '/'.
RECURSIVE RelStr(_)
RelStr(rel) ==
    IF rel = <<>> THEN <<".">>
    ELSE IF Len(rel) = 1 THEN rel[1]
    ELSE rel[1] \o <<"/">> \o RelStr(Tail(rel))

\* filepath.Join(dir, relPath)
Join(dir, relStr) == IF relStr = <<".">> THEN dir ELSE dir \o <<"/">> \o relStr

\* filepath.Walk's order: a directory before its entries, the entries of a
\* directory in lexical order of their names.
RECURSIVE WalkBefore(_, _)
WalkBefore(p, q) ==
    IF p = <<>> THEN q # <<>>
    ELSE IF q = <<>> THEN FALSE
    ELSE IF p[1] # q[1] THEN StrLess(p[1], q[1])
    ELSE WalkBefore(Tail(p), Tail(q))

RECURSIVE WalkOrder(_)
WalkOrder(S) ==
    IF S = {} THEN <<>>
    ELSE LET m == CHOOSE p \in S : \A q \in S \ {p} : WalkBefore(p, q)
         IN  <<m>> \o WalkOrder(S \ {m})

\* The entries filepath.Walk passes to its callback for a sheet, in order:
\* the root first, then the tree.  A root that is a regular file is the one
\* entry; a root that does not exist is passed with lstat's error.
WalkEntries(sheet) ==
    IF sheet.kind = "missing" THEN
        <<[rel |-> <<>>, isDir |-> FALSE, lstatErr |-> TRUE,
           file |-> [readable |-> FALSE, data |-> <<>>]]>>
    ELSE IF sheet.kind = "file" THEN
        <<[rel |-> <<>>, isDir |-> FALSE, lstatErr |-> FALSE,
           file |-> [readable |-> TRUE, data |-> <<>>]]>>
    ELSE
        LET order == WalkOrder(DOMAIN sheet.tree)
        IN  [i \in 1..Len(order) |->
                [rel |-> order[i],
                 isDir |-> sheet.tree[order[i]].isDir,
                 lstatErr |-> FALSE,
                 file |-> [readable |-> sheet.tree[order[i]].readable,
                           data |-> sheet.tree[order[i]].data]]]

(***************************************************************************)
(* The validator (validator.go)                                            *)
(***************************************************************************)
\* varUsage[v] = append(varUsage[v], relPath) for each v of vs
RECURSIVE appendUsage(_, _, _)
appendUsage(usage, vs, relPath) ==
    IF vs = <<>> THEN usage
    ELSE LET v == Head(vs)
             old == IF v \in DOMAIN usage THEN usage[v] ELSE <<>>
             new == [w \in DOMAIN usage \cup {v} |->
                        IF w = v THEN Append(old, relPath) ELSE usage[w]]
         IN  appendUsage(new, Tail(vs), relPath)

\* the test without isTmplNoopFile
skipNonTemplateNoFrozenTest(s, isDir, path) ==
    isDir \/ ~HasSuffix(path, s.templateExt)

\* "Skip non-template files": the entries collectTemplateVars' callback
\* passes over without extracting.
skipNonTemplate(s, isDir, path) ==
    isDir \/ isTmplNoopFile(s, path) \/ ~HasSuffix(path, s.templateExt)

\* collectTemplateVars' callback returning nil for an entry lstat failed on
RECURSIVE collectFromIgnoreLstat(_, _, _, _, _)
collectFromIgnoreLstat(s, sheet, entries, i, usage) ==
    IF i > Len(entries) THEN [err |-> FALSE, usage |-> usage]
    ELSE LET e == entries[i]
             path == Join(sheet.name, RelStr(e.rel))
         IN  IF e.lstatErr \/ e.isDir \/ isTmplNoopFile(s, path)
                     \/ ~HasSuffix(path, s.templateExt)
                  THEN collectFromIgnoreLstat(s, sheet, entries, i + 1, usage)
             ELSE LET x == extractTemplateVars(e.file) IN
                  IF x.err THEN collectFromIgnoreLstat(s, sheet, entries, i + 1, usage)
                  ELSE collectFromIgnoreLstat(s, sheet, entries, i + 1,
                                   appendUsage(usage, x.vars, RelStr(e.rel)))

\* collectTemplateVars' callback returning the error of extractTemplateVars
RECURSIVE collectFromReturnParseError(_, _, _, _, _)
collectFromReturnParseError(s, sheet, entries, i, usage) ==
    IF i > Len(entries) THEN [err |-> FALSE, usage |-> usage]
    ELSE LET e == entries[i]
             path == Join(sheet.name, RelStr(e.rel))
         IN  IF e.lstatErr THEN [err |-> TRUE, usage |-> usage]
             ELSE IF e.isDir \/ isTmplNoopFile(s, path)
                     \/ ~HasSuffix(path, s.templateExt)
                  THEN collectFromReturnParseError(s, sheet, entries, i + 1, usage)
             ELSE LET x == extractTemplateVars(e.file) IN
                  IF x.err THEN [err |-> TRUE, usage |-> usage]
                  ELSE collectFromReturnParseError(s, sheet, entries, i + 1,
                                   appendUsage(usage, x.vars, RelStr(e.rel)))

\* The callback of collectTemplateVars for the entries from position i on.
RECURSIVE collectFrom(_, _, _, _, _)
collectFrom(s, sheet, entries, i, usage) ==
    IF i > Len(entries) THEN [err |-> FALSE, usage |-> usage]
    ELSE LET e == entries[i]
             path == Join(sheet.name, RelStr(e.rel))
         IN  IF e.lstatErr THEN [err |-> TRUE, usage |-> usage]
             ELSE IF skipNonTemplate(s, e.isDir, path)
                  THEN collectFrom(s, sheet, entries, i + 1, usage)
             ELSE LET x == extractTemplateVars(e.file) IN
                  IF x.err THEN collectFrom(s, sheet, entries, i + 1, usage)
                  ELSE collectFrom(s, sheet, entries, i + 1,
                                   appendUsage(usage, x.vars, RelStr(e.rel)))

collectTemplateVars(s, sheet, usage) ==
    collectFrom(s, sheet, WalkEntries(sheet), 1, usage)

\* collectAll checking each sheet by itself: the usage of the sheets before
\* the last is dropped
RECURSIVE collectAllPerLayer(_, _, _, _)
collectAllPerLayer(s, dirs, i, usage) ==
    IF i > Len(dirs) THEN [err |-> FALSE, usage |-> usage]
    ELSE LET r == collectTemplateVars(s, dirs[i], <<>>) IN
         IF r.err THEN r ELSE collectAllPerLayer(s, dirs, i + 1, r.usage)

\* The loop of validateMultipleTemplateVars over srcDirs from position i on.
RECURSIVE collectAll(_, _, _, _)
collectAll(s, dirs, i, usage) ==
    IF i > Len(dirs) THEN [err |-> FALSE, usage |-> usage]
    ELSE LET r == collectTemplateVars(s, dirs[i], usage) IN
         IF r.err THEN r ELSE collectAll(s, dirs, i + 1, r.usage)

\* missingVars taking a key with the empty value for a missing one
missingVarsOfEmptyIsMissing(s, usage) ==
    [v \in {w \in DOMAIN usage : w \notin DOMAIN s.templateVars
                                   \/ s.templateVars[w] = ""} |-> usage[v]]

\* missingVars without the test against templateVars
missingVarsOfAll(s, usage) == usage

\* missingVars: the entries of varUsage whose key templateVars lacks
missingVarsOf(s, usage) ==
    [v \in {w \in DOMAIN usage : w \notin DOMAIN s.templateVars} |-> usage[v]]

validateMultipleTemplateVars(s, dirs) ==
    LET r == collectAll(s, dirs, 1, <<>>) IN
    IF r.err THEN [err |-> Error("scan", 0, "lstat", <<>>), usage |-> r.usage]
    ELSE LET missing == missingVarsOf(s, r.usage) IN
         IF DOMAIN missing # {}
         THEN [err |-> Error("ValidationError", 0, "", missing), usage |-> r.usage]
         ELSE [err |-> NoError, usage |-> r.usage]

(***************************************************************************)
(* The file system of the destination                                      *)
(***************************************************************************)
\* no handle of a destination file is open, and none has been
NoHandles == [open |-> 0, peak |-> 0]

DirEntry == [isDir |-> TRUE, data |-> <<>>]
FileEntry(data) == [isDir |-> FALSE, data |-> data]

Put(f, p, e) == [q \in DOMAIN f \cup {p} |-> IF q = p THEN e ELSE f[q]]

\* filepath.Dir: the path without its last name (<<>>: the working directory)
ParentDir(p) ==
    LET slashes == {i \in DOMAIN p : p[i] = "/"} IN
    IF slashes = {} THEN <<>>
    ELSE SubSeq(p, 1, (CHOOSE i \in slashes : \A j \in slashes : j <= i) - 1)

IsDirAt(f, p) == p = <<>> \/ (p \in DOMAIN f /\ f[p].isDir)

\* os.MkdirAll replacing an existing directory by an empty one
RECURSIVE MkdirAllReplace(_, _)
MkdirAllReplace(f, p) ==
    IF p = <<>> THEN [err |-> FALSE, fs |-> f]
    ELSE IF p \in DOMAIN f
    THEN [err |-> ~f[p].isDir,
          fs |-> IF ~f[p].isDir THEN f
                 ELSE [q \in {q \in DOMAIN f :
                                ~(Len(q) > Len(p) /\ SubSeq(q, 1, Len(p) + 1) = p \o <<"/">>)}
                          |-> f[q]]]
    ELSE LET r == MkdirAllReplace(f, ParentDir(p)) IN
         IF r.err THEN r ELSE [err |-> FALSE, fs |-> Put(r.fs, p, DirEntry)]

\* os.MkdirAll putting a directory in the place of a regular file
RECURSIVE MkdirAllOverFile(_, _)
MkdirAllOverFile(f, p) ==
    IF p = <<>> THEN [err |-> FALSE, fs |-> f]
    ELSE IF p \in DOMAIN f
    THEN [err |-> FALSE, fs |-> IF f[p].isDir THEN f ELSE Put(f, p, DirEntry)]
    ELSE LET r == MkdirAllOverFile(f, ParentDir(p)) IN
         IF r.err THEN r ELSE [err |-> FALSE, fs |-> Put(r.fs, p, DirEntry)]

\* os.MkdirAll failing on a path that exists, as os.Mkdir does
RECURSIVE MkdirAllExclusive(_, _)
MkdirAllExclusive(f, p) ==
    IF p = <<>> THEN [err |-> FALSE, fs |-> f]
    ELSE IF p \in DOMAIN f THEN [err |-> TRUE, fs |-> f]
    ELSE LET r == IF IsDirAt(f, ParentDir(p)) THEN [err |-> FALSE, fs |-> f]
                  ELSE MkdirAllExclusive(f, ParentDir(p))
         IN  IF r.err THEN r ELSE [err |-> FALSE, fs |-> Put(r.fs, p, DirEntry)]

\* os.MkdirAll: an existing directory is success, an existing file an error,
\* otherwise the parents are made first.
RECURSIVE MkdirAll(_, _)
MkdirAll(f, p) ==
    IF p = <<>> THEN [err |-> FALSE, fs |-> f]
    ELSE IF p \in DOMAIN f THEN [err |-> ~f[p].isDir, fs |-> f]
    ELSE LET r == MkdirAll(f, ParentDir(p)) IN
         IF r.err THEN r ELSE [err |-> FALSE, fs |-> Put(r.fs, p, DirEntry)]

\* Opening p with O_WRONLY|O_CREATE|O_TRUNC, as os.WriteFile and os.Create do.
CanCreate(f, p) ==
    /\ p # <<>>
    /\ p[Len(p)] # "/"
    /\ ~(p \in DOMAIN f /\ f[p].isDir)
    /\ IsDirAt(f, ParentDir(p))

(***************************************************************************)
(* The handlers of one file (stamp.go, template.go)                        *)
(***************************************************************************)
\* copyFile leaving the destination's previous content in place
copyFileKeepOld(f, file, dest) ==
    IF ~file.readable THEN [err |-> "read", fs |-> f, open |-> 0, peak |-> 0]
    ELSE IF ~CanCreate(f, dest) THEN [err |-> "write", fs |-> f, open |-> 0, peak |-> 0]
    ELSE [err |-> "nil",
          fs |-> IF dest \in DOMAIN f THEN f ELSE Put(f, dest, FileEntry(file.data)),
          open |-> 0, peak |-> 1]

\* copyFile: os.ReadFile, then os.WriteFile, which opens dest, writes and
\* closes it.
copyFile(f, file, dest) ==
    IF ~file.readable THEN [err |-> "read", fs |-> f, open |-> 0, peak |-> 0]
    ELSE IF ~CanCreate(f, dest) THEN [err |-> "write", fs |-> f, open |-> 0, peak |-> 0]
    ELSE [err |-> "nil", fs |-> Put(f, dest, FileEntry(file.data)),
          open |-> 0, peak |-> 1]

\* processTmplNoop expanding the content like processTemplate
processTmplNoopRendered(s, f, file, destPath) ==
    LET t == Parse(file.data) IN
    IF t.err THEN copyFile(f, file, removeNoopExtension(destPath))
    ELSE copyFile(f, [file EXCEPT !.data = Execute(t, s.templateVars).out],
                  removeNoopExtension(destPath))

processTmplNoop(s, f, file, destPath) ==
    copyFile(f, file, removeNoopExtension(destPath))

\* processTemplate returning nil for a template that does not parse
processTemplateSkipMalformed(s, f, file, destPath) ==
    LET dest == removeTemplateExtension(s, destPath) IN
    IF ~file.readable THEN [err |-> "read", fs |-> f, open |-> 0, peak |-> 0]
    ELSE LET t == Parse(file.data) IN
         IF t.err THEN [err |-> "nil", fs |-> f, open |-> 0, peak |-> 0]
         ELSE IF ~CanCreate(f, dest)
         THEN [err |-> "create", fs |-> f, open |-> 0, peak |-> 0]
         ELSE LET r == Execute(t, s.templateVars) IN
              [err |-> IF r.err THEN "execute" ELSE "nil",
               fs |-> Put(f, dest, FileEntry(r.out)), open |-> 0, peak |-> 1]

\* processTemplate writing to the path with the extension left on
processTemplateKeepExt(s, f, file, destPath) ==
    IF ~file.readable THEN [err |-> "read", fs |-> f, open |-> 0, peak |-> 0]
    ELSE LET t == Parse(file.data) IN
         IF t.err THEN [err |-> "parse", fs |-> f, open |-> 0, peak |-> 0]
         ELSE IF ~CanCreate(f, destPath)
         THEN [err |-> "create", fs |-> f, open |-> 0, peak |-> 0]
         ELSE LET r == Execute(t, s.templateVars) IN
              [err |-> IF r.err THEN "execute" ELSE "nil",
               fs |-> Put(f, destPath, FileEntry(r.out)), open |-> 0, peak |-> 1]

\* processTemplate closing destFile after a successful Execute only
processTemplateCloseOnSuccess(s, f, file, destPath) ==
    LET dest == removeTemplateExtension(s, destPath) IN
    IF ~file.readable THEN [err |-> "read", fs |-> f, open |-> 0, peak |-> 0]
    ELSE LET t == Parse(file.data) IN
         IF t.err THEN [err |-> "parse", fs |-> f, open |-> 0, peak |-> 0]
         ELSE IF ~CanCreate(f, dest)
         THEN [err |-> "create", fs |-> f, open |-> 0, peak |-> 0]
         ELSE LET r == Execute(t, s.templateVars) IN
              [err |-> IF r.err THEN "execute" ELSE "nil",
               fs |-> Put(f, dest, FileEntry(r.out)),
               open |-> IF r.err THEN 1 ELSE 0, peak |-> 1]

\* processTemplate executing into a buffer that is written when Execute
\* has succeeded
processTemplateBuffered(s, f, file, destPath) ==
    LET dest == removeTemplateExtension(s, destPath) IN
    IF ~file.readable THEN [err |-> "read", fs |-> f, open |-> 0, peak |-> 0]
    ELSE LET t == Parse(file.data) IN
         IF t.err THEN [err |-> "parse", fs |-> f, open |-> 0, peak |-> 0]
         ELSE LET r == Execute(t, s.templateVars) IN
              IF r.err THEN [err |-> "execute", fs |-> f, open |-> 0, peak |-> 0]
              ELSE IF ~CanCreate(f, dest)
              THEN [err |-> "create", fs |-> f, open |-> 0, peak |-> 0]
              ELSE [err |-> "nil", fs |-> Put(f, dest, FileEntry(r.out)),
                    open |-> 0, peak |-> 1]

\* processTemplate: the file is read and parsed, then os.Create opens (and
\* truncates) the destination, and the deferred Close runs on both returns
\* that follow it; Execute writes to the open file.
processTemplate(s, f, file, destPath) ==
    LET dest == removeTemplateExtension(s, destPath) IN
    IF ~file.readable THEN [err |-> "read", fs |-> f, open |-> 0, peak |-> 0]
    ELSE LET t == Parse(file.data) IN
         IF t.err THEN [err |-> "parse", fs |-> f, open |-> 0, peak |-> 0]
         ELSE IF ~CanCreate(f, dest)
         THEN [err |-> "create", fs |-> f, open |-> 0, peak |-> 0]
         ELSE LET r == Execute(t, s.templateVars) IN
              [err |-> IF r.err THEN "execute" ELSE "nil",
               fs |-> Put(f, dest, FileEntry(r.out)), open |-> 0, peak |-> 1]

(***************************************************************************)
(* The variables of the specifications that are not running                *)
(***************************************************************************)
RunIdle ==
    /\ srcDirs = <<>>
    /\ fs = <<>>
    /\ fs0 = <<>>
    /\ pc = "idle"
    /\ layer = 0
    /\ walk = <<>>
    /\ walkPos = 0
    /\ varUsage = <<>>
    /\ err = NoError
    /\ runs = 0
    /\ handles = NoHandles

ClassifyIdle ==
    /\ cpath = <<>>
    /\ cext = <<>>
    /\ chandler = "none"
    /\ cscanned = FALSE

ExtractIdle ==
    /\ tree = Nil
    /\ nesting = 0
    /\ extracted = [done |-> FALSE, vars |-> <<>>]

PressIdle == press = [done |-> FALSE]

(***************************************************************************)
(* SpecClassify: New followed by processFile's dispatch of one path and    *)
(* by the validator's test of it                                           *)
(***************************************************************************)
\* The extensions a caller may configure ("" is the flag's absence).
ClassifyExts == {<<>>, DefaultExt, TmplExt, NoopExt, <<"p">>}

RECURSIVE ClassifyNames(_)
ClassifyNames(k) ==
    IF k = 0 THEN {<<"a">>}
    ELSE ClassifyNames(k - 1) \cup
         {n \o x : n \in ClassifyNames(k - 1), x \in {DefaultExt, TmplExt, NoopExt}}

\* srcPath as filepath.Walk hands it over: the sheet's directory, '/', the name
ClassifyPaths == {<<"s", "/">> \o n : n \in ClassifyNames(MaxSuffixes)}

InitClassify ==
    /\ cext \in ClassifyExts
    /\ cpath \in ClassifyPaths
    /\ chandler = "none"
    /\ cscanned = FALSE
    /\ stamper = New(<<>>, <<"?">>)
    /\ RunIdle
    /\ ExtractIdle
    /\ PressIdle

Classify ==
    /\ chandler = "none"
    /\ stamper' = New(<<>>, cext)
    /\ chandler' = processFile(stamper', cpath)
    /\ cscanned' = ~skipNonTemplate(stamper', FALSE, cpath)
    /\ UNCHANGED <<srcDirs, fs, fs0, press, runs, handles, pc, layer, walk, walkPos,
                   varUsage, err, cpath, cext, tree, nesting, extracted>>

NextClassify == Classify

SpecClassify == InitClassify /\ [][NextClassify]_vars

(***************************************************************************)
(* SpecExtract: extractTemplateVars on a parsed template                   *)
(***************************************************************************)
\* Pipelines of the actions and of the if/range/with conditions:
\*   .a    .b.c    (.d).e    printf "%s" .f
ExtractPipes ==
    { Pipe1(FieldNode(<<"a">>)),
      Pipe1(FieldNode(<<"b", "c">>)),
      Pipe1(ChainNode(Pipe1(FieldNode(<<"d">>)), <<"e">>)),
      PipeNode(<<CommandNode(<<IdentifierNode("printf"), StringNode("%s"),
                               FieldNode(<<"f">>)>>)>>) }

\* Top-level nodes: text, {{pipeline}}, {{$.g}}, {{template "t" .h}}
ExtractLeaves ==
    {TextNode("text")}
    \cup {ActionNode(p) : p \in ExtractPipes}
    \cup {ActionNode(Pipe1(VariableNode(<<"$", "g">>))),
          TemplateNode("t", Pipe1(FieldNode(<<"h">>)))}

InitExtract ==
    /\ \E leaf \in ExtractLeaves : tree = ListNode(<<leaf>>)
    /\ nesting = 0
    /\ extracted = [done |-> FALSE, vars |-> <<>>]
    /\ stamper = New(<<>>, <<>>)
    /\ RunIdle
    /\ ClassifyIdle
    /\ PressIdle

\* The template one level deeper: the current body becomes one arm of an
\* if, range or with whose other arm is absent or a single action.
Nest ==
    /\ ~extracted.done
    /\ nesting < MaxDepth
    /\ \E type \in BranchTypes, pipe \in ExtractPipes :
          \/ \E other \in {Nil, ListNode(<<ActionNode(Pipe1(FieldNode(<<"a">>)))>>)} :
                tree' = ListNode(<<BranchNode(type, pipe, tree, other)>>)
          \/ tree' = ListNode(<<BranchNode(type, pipe,
                                           ListNode(<<TextNode("text")>>), tree)>>)
    /\ nesting' = nesting + 1
    /\ UNCHANGED <<stamper, srcDirs, fs, fs0, press, runs, handles, pc, layer, walk, walkPos, varUsage, err,
                   cpath, chandler, cscanned, cext, extracted>>

Extract ==
    /\ ~extracted.done
    /\ extracted' = [done |-> TRUE, vars |-> varsOfTree(tree)]
    /\ UNCHANGED <<stamper, srcDirs, fs, fs0, press, runs, handles, pc, layer, walk, walkPos, varUsage, err,
                   cpath, chandler, cscanned, cext, tree, nesting>>

NextExtract == Nest \/ Extract

SpecExtract == InitExtract /\ [][NextExtract]_vars

(***************************************************************************)
(* Spec: a run of ExecuteMultiple                                          *)
(***************************************************************************)
NameA == <<"a">>
NameTemplate == NameA \o DefaultExt
NameFrozen == NameTemplate \o NoopExt
NameHidden == <<".", "h">>
NameD == <<"d">>
NameConfig == <<"s", "t", "a", "m", "p", ".", "y", "a", "m", "l">>

Readable(data) == [readable |-> TRUE, data |-> data]
Unreadable == [readable |-> FALSE, data |-> <<>>]

\* The files a sheet may hold: relative path and file.
SheetFiles ==
    ({<<NameA>>, <<NameHidden>>, <<NameD>>, <<NameD, NameConfig>>, <<NameFrozen>>}
        \X {Readable(SrcField)})
    \cup ({<<NameTemplate>>} \X {Readable(SrcField), Readable(SrcIf),
                                  Readable(SrcChained), Readable(SrcMalformed),
                                  Unreadable})
    \cup ({<<NameD, NameTemplate>>} \X {Readable(SrcField), Readable(SrcIf)})

Slots(k) == {[l |-> i, rel |-> c[1], file |-> c[2]] : i \in 1..k, c \in SheetFiles}

\* a file and a directory of one sheet cannot share a path
Compatible(c, slot) ==
    \A t \in c :
        t.l = slot.l =>
            /\ t.rel # slot.rel
            /\ ~(Len(t.rel) = 2 /\ slot.rel = <<t.rel[1]>>)
            /\ ~(Len(slot.rel) = 2 /\ t.rel = <<slot.rel[1]>>)

\* The sets of at most n files spread over k sheets.
RECURSIVE FileSets(_, _)
FileSets(k, n) ==
    IF n = 0 THEN {{}}
    ELSE LET smaller == FileSets(k, n - 1) IN
         smaller \cup {c \cup {slot} : c \in smaller, slot \in Slots(k)}

ValidFileSets(k, n) ==
    {c \in FileSets(k, n) : \A slot \in c : Compatible(c \ {slot}, slot)}

\* The sheet at position i: a directory holding its files and their
\* directories, a regular file, or a path that does not exist.
MkSheet(i, kind, slots) ==
    IF kind # "dir" THEN [name |-> SheetName(i), kind |-> kind, tree |-> <<>>]
    ELSE LET files == {t.rel : t \in slots}
             dirs == {<<>>} \cup {<<r[1]>> : r \in {q \in files : Len(q) = 2}}
         IN  [name |-> SheetName(i), kind |-> "dir",
              tree |-> [r \in files \cup dirs |->
                  IF r \in dirs
                  THEN [isDir |-> TRUE, readable |-> TRUE, data |-> <<>>]
                  ELSE LET t == CHOOSE t \in slots : t.rel = r IN
                       [isDir |-> FALSE, readable |-> t.file.readable,
                        data |-> t.file.data]]]

\* the values the callers give the variables x and y
VarValues == [x |-> "1", y |-> "2"]

\* The destination before the run: absent, or holding a file a from before.
DestInits ==
    { <<>>,
      Put(Put(<<>>, DestRoot, DirEntry), Join(DestRoot, NameA), FileEntry(<<"old">>)) }

Init ==
    /\ \E k \in 0..MaxLayers :
        \E kinds \in [1..k -> {"dir", "file", "missing"}] :
            \E c \in ValidFileSets(k, MaxFiles) :
                /\ \A slot \in c : kinds[slot.l] = "dir"
                /\ srcDirs = [i \in 1..k |-> MkSheet(i, kinds[i], {t \in c : t.l = i})]
    /\ \E keys \in SUBSET {"x", "y"} :
          stamper = New([v \in keys |-> VarValues[v]], <<>>)
    /\ fs \in DestInits
    /\ fs0 = fs
    /\ pc = "start"
    /\ layer = 0
    /\ walk = <<>>
    /\ walkPos = 0
    /\ varUsage = <<>>
    /\ err = NoError
    /\ runs = 1
    /\ handles = NoHandles
    /\ ClassifyIdle
    /\ ExtractIdle
    /\ PressIdle

\* ExecuteMultiple without the test for an empty srcDirs
ValidateNoEmptyCheck ==
    /\ pc = "start"
    /\ LET v == validateMultipleTemplateVars(stamper, srcDirs) IN
            /\ varUsage' = v.usage
            /\ err' = v.err
            /\ pc' = IF v.err.kind = "nil" THEN "mkdir" ELSE "failed"
    /\ UNCHANGED <<stamper, srcDirs, fs, fs0, press, runs, handles, layer, walk, walkPos,
                   cpath, chandler, cscanned, cext, tree, nesting, extracted>>

\* ExecuteMultiple making the destination before it validates
ValidateAfterMkdir ==
    /\ pc = "start"
    /\ IF Len(srcDirs) = 0
       THEN /\ pc' = "failed"
            /\ err' = Error("noSources", 0, "", <<>>)
            /\ UNCHANGED <<varUsage, fs>>
       ELSE LET v == validateMultipleTemplateVars(stamper, srcDirs) IN
            /\ fs' = MkdirAll(fs, DestRoot).fs
            /\ varUsage' = v.usage
            /\ err' = v.err
            /\ pc' = IF v.err.kind = "nil" THEN "mkdir" ELSE "failed"
    /\ UNCHANGED <<stamper, srcDirs, fs0, press, runs, handles, layer, walk, walkPos,
                   cpath, chandler, cscanned, cext, tree, nesting, extracted>>

\* ExecuteMultiple up to the return of validateMultipleTemplateVars.
Validate ==
    /\ pc = "start"
    /\ IF Len(srcDirs) = 0
       THEN /\ pc' = "failed"
            /\ err' = Error("noSources", 0, "", <<>>)
            /\ UNCHANGED varUsage
       ELSE LET v == validateMultipleTemplateVars(stamper, srcDirs) IN
            /\ varUsage' = v.usage
            /\ err' = v.err
            /\ pc' = IF v.err.kind = "nil" THEN "mkdir" ELSE "failed"
    /\ UNCHANGED <<stamper, srcDirs, fs, fs0, press, runs, handles, layer, walk, walkPos,
                   cpath, chandler, cscanned, cext, tree, nesting, extracted>>

\* os.MkdirAll(dest, 0755)
MkdirDest ==
    /\ pc = "mkdir"
    /\ LET r == MkdirAll(fs, DestRoot) IN
        /\ fs' = r.fs
        /\ IF r.err
           THEN pc' = "failed" /\ err' = Error("mkdirDest", 0, "mkdir", <<>>)
                /\ UNCHANGED layer
           ELSE pc' = "stat" /\ layer' = 1 /\ UNCHANGED err
    /\ UNCHANGED <<stamper, srcDirs, fs0, press, runs, handles, walk, walkPos, varUsage,
                   cpath, chandler, cscanned, cext, tree, nesting, extracted>>

\* Continue leaving a sheet before the last entry of its walk
ContinueSkipLast(i, w, pos) ==
    IF pos + 1 < Len(w)
    THEN pc' = "walk" /\ layer' = i /\ walk' = w /\ walkPos' = pos
    ELSE IF i < Len(srcDirs)
    THEN pc' = "stat" /\ layer' = i + 1 /\ walk' = <<>> /\ walkPos' = 0
    ELSE pc' = "done" /\ layer' = i /\ walk' = w /\ walkPos' = pos

\* After entry pos of the walk w of sheet i: the next entry, the next sheet,
\* or the return of nil.
Continue(i, w, pos) ==
    IF pos < Len(w)
    THEN pc' = "walk" /\ layer' = i /\ walk' = w /\ walkPos' = pos
    ELSE IF i < Len(srcDirs)
    THEN pc' = "stat" /\ layer' = i + 1 /\ walk' = <<>> /\ walkPos' = 0
    ELSE pc' = "done" /\ layer' = i /\ walk' = w /\ walkPos' = pos

\* The start of the loop body going on to the next sheet when src is not a
\* directory
EnterLayerSkipNonDir ==
    /\ pc = "stat"
    /\ LET sheet == srcDirs[layer] IN
        IF sheet.kind = "missing"
        THEN /\ pc' = "failed" /\ err' = Error("stat", layer, "stat", <<>>)
             /\ UNCHANGED <<fs, layer, walk, walkPos>>
        ELSE IF sheet.kind # "dir"
        THEN Continue(layer, <<>>, 0) /\ UNCHANGED <<fs, err>>
        ELSE LET r == MkdirAll(fs, Join(DestRoot, RelStr(<<>>))) IN
             /\ fs' = r.fs
             /\ IF r.err
                THEN /\ pc' = "failed" /\ err' = Error("process", layer, "mkdir", <<>>)
                     /\ UNCHANGED <<layer, walk, walkPos>>
                ELSE Continue(layer, WalkEntries(sheet), 1) /\ UNCHANGED err
    /\ UNCHANGED <<stamper, srcDirs, fs0, press, runs, handles, varUsage,
                   cpath, chandler, cscanned, cext, tree, nesting, extracted>>

\* The start of the loop body for a sheet: os.Stat(src), then the walk's
\* first callback, which is for the sheet's root and makes dest again.
EnterLayer ==
    /\ pc = "stat"
    /\ LET sheet == srcDirs[layer] IN
        IF sheet.kind = "missing"
        THEN /\ pc' = "failed" /\ err' = Error("stat", layer, "stat", <<>>)
             /\ UNCHANGED <<fs, layer, walk, walkPos>>
        ELSE IF sheet.kind # "dir"
        THEN /\ pc' = "failed" /\ err' = Error("notDir", layer, "", <<>>)
             /\ UNCHANGED <<fs, layer, walk, walkPos>>
        ELSE LET r == MkdirAll(fs, Join(DestRoot, RelStr(<<>>))) IN
             /\ fs' = r.fs
             /\ IF r.err
                THEN /\ pc' = "failed" /\ err' = Error("process", layer, "mkdir", <<>>)
                     /\ UNCHANGED <<layer, walk, walkPos>>
                ELSE Continue(layer, WalkEntries(sheet), 1) /\ UNCHANGED err
    /\ UNCHANGED <<stamper, srcDirs, fs0, press, runs, handles, varUsage,
                   cpath, chandler, cscanned, cext, tree, nesting, extracted>>

\* the entry the walk is at, its source path and its destination path
Entry == walk[walkPos + 1]
SrcPath == Join(srcDirs[layer].name, RelStr(Entry.rel))
DestPath == Join(DestRoot, RelStr(Entry.rel))

\* The handles after a handler that left r.open handles open and had at most
\* r.peak open at once.
handlesAfter(h, r) ==
    [open |-> h.open + r.open,
     peak |-> IF h.open + r.peak > h.peak THEN h.open + r.peak ELSE h.peak]

\* Callback restoring the destination when the handler fails
CallbackRollback(r) ==
    /\ fs' = IF r.err # "nil" THEN fs0 ELSE r.fs
    /\ handles' = handlesAfter(handles, r)
    /\ IF r.err # "nil"
       THEN /\ pc' = "failed" /\ err' = Error("process", layer, r.err, <<>>)
            /\ UNCHANGED <<layer, walk, walkPos>>
       ELSE Continue(layer, walk, walkPos + 1) /\ UNCHANGED err
    /\ UNCHANGED <<stamper, srcDirs, fs0, press, runs, varUsage,
                   cpath, chandler, cscanned, cext, tree, nesting, extracted>>

\* Callback numbering the sheets from 0 in its error, as the loop's index does
CallbackZeroBased(r) ==
    /\ fs' = r.fs
    /\ handles' = handlesAfter(handles, r)
    /\ IF r.err # "nil"
       THEN /\ pc' = "failed" /\ err' = Error("process", layer - 1, r.err, <<>>)
            /\ UNCHANGED <<layer, walk, walkPos>>
       ELSE Continue(layer, walk, walkPos + 1) /\ UNCHANGED err
    /\ UNCHANGED <<stamper, srcDirs, fs0, press, runs, varUsage,
                   cpath, chandler, cscanned, cext, tree, nesting, extracted>>

\* The callback returns r: an error ends the walk and the run, else on.
Callback(r) ==
    /\ fs' = r.fs
    /\ handles' = handlesAfter(handles, r)
    /\ IF r.err # "nil"
       THEN /\ pc' = "failed" /\ err' = Error("process", layer, r.err, <<>>)
            /\ UNCHANGED <<layer, walk, walkPos>>
       ELSE Continue(layer, walk, walkPos + 1) /\ UNCHANGED err
    /\ UNCHANGED <<stamper, srcDirs, fs0, press, runs, varUsage,
                   cpath, chandler, cscanned, cext, tree, nesting, extracted>>

\* processTemplateDir's callback on a directory
MirrorDir ==
    /\ pc = "walk"
    /\ Entry.isDir
    /\ LET r == MkdirAll(fs, DestPath) IN
       Callback([err |-> IF r.err THEN "mkdir" ELSE "nil", fs |-> r.fs,
                 open |-> 0, peak |-> 0])

\* processTemplateDir's callback on a file that processFile copies
CopyPlain ==
    /\ pc = "walk"
    /\ ~Entry.isDir
    /\ processFile(stamper, SrcPath) = "copyFile"
    /\ Callback(copyFile(fs, Entry.file, DestPath))

\* ... on a file that processFile gives to processTmplNoop
CopyFrozen ==
    /\ pc = "walk"
    /\ ~Entry.isDir
    /\ processFile(stamper, SrcPath) = "processTmplNoop"
    /\ Callback(processTmplNoop(stamper, fs, Entry.file, DestPath))

\* ... on a file that processFile gives to processTemplate
Render ==
    /\ pc = "walk"
    /\ ~Entry.isDir
    /\ processFile(stamper, SrcPath) = "processTemplate"
    /\ Callback(processTemplate(stamper, fs, Entry.file, DestPath))

Next == Validate \/ MkdirDest \/ EnterLayer \/ MirrorDir \/ CopyPlain
        \/ CopyFrozen \/ Render

Spec == Init /\ [][Next]_vars

(***************************************************************************)
(* SpecTwice: ExecuteMultiple over sheet directories, some variables       *)
(* empty, and called again with the same arguments when it has succeeded   *)
(***************************************************************************)
\* The files a sheet may hold: relative path and file.
SheetFilesTwice ==
    ({<<NameA>>, <<NameD>>, <<NameD, NameA>>, <<NameFrozen>>}
        \X {Readable(SrcField)})
    \cup ({<<NameTemplate>>} \X {Readable(SrcField), Readable(SrcWith),
                                  Readable(SrcDefine)})

SlotsTwice(k) ==
    {[l |-> i, rel |-> c[1], file |-> c[2]] : i \in 1..k, c \in SheetFilesTwice}

\* The sets of at most n files spread over k sheets.
RECURSIVE FileSetsTwice(_, _)
FileSetsTwice(k, n) ==
    IF n = 0 THEN {{}}
    ELSE LET smaller == FileSetsTwice(k, n - 1) IN
         smaller \cup {c \cup {slot} : c \in smaller, slot \in SlotsTwice(k)}

ValidFileSetsTwice(k, n) ==
    {c \in FileSetsTwice(k, n) : \A slot \in c : Compatible(c \ {slot}, slot)}

\* The maps the callers give New: x absent, empty or "1", y absent or "2".
VarMapsTwice ==
    {[v \in keys |-> IF v = "x" THEN xval ELSE "2"] :
        keys \in SUBSET {"x", "y"}, xval \in {"", "1"}}

\* The destination before the first run: absent, holding a file d, or
\* holding a directory a.
DestInitsTwice ==
    { <<>>,
      Put(Put(<<>>, DestRoot, DirEntry), Join(DestRoot, NameD), FileEntry(<<"old">>)),
      Put(Put(<<>>, DestRoot, DirEntry), Join(DestRoot, NameA), DirEntry) }

InitTwice ==
    /\ \E k \in 1..MaxLayers :
        \E c \in ValidFileSetsTwice(k, MaxFiles) :
            srcDirs = [i \in 1..k |-> MkSheet(i, "dir", {t \in c : t.l = i})]
    /\ \E tvars \in VarMapsTwice : stamper = New(tvars, <<>>)
    /\ fs \in DestInitsTwice
    /\ fs0 = fs
    /\ pc = "start"
    /\ layer = 0
    /\ walk = <<>>
    /\ walkPos = 0
    /\ varUsage = <<>>
    /\ err = NoError
    /\ runs = 1
    /\ handles = NoHandles
    /\ ClassifyIdle
    /\ ExtractIdle
    /\ PressIdle

\* ExecuteMultiple is called again, with the same srcDirs and dest on the
\* same Stamper, when it has returned nil.
Rerun ==
    /\ pc = "done"
    /\ runs < MaxRuns
    /\ runs' = runs + 1
    /\ fs0' = fs
    /\ pc' = "start"
    /\ layer' = 0
    /\ walk' = <<>>
    /\ walkPos' = 0
    /\ varUsage' = <<>>
    /\ err' = NoError
    /\ UNCHANGED <<stamper, srcDirs, fs, press, handles,
                   cpath, chandler, cscanned, cext, tree, nesting, extracted>>

NextTwice == Validate \/ MkdirDest \/ EnterLayer \/ MirrorDir \/ CopyPlain
             \/ CopyFrozen \/ Render \/ Rerun

SpecTwice == InitTwice /\ [][NextTwice]_vars

(***************************************************************************)
(* SpecPress: the press command building the stamper's variables           *)
(* (cli.go, config.go)                                                     *)
(***************************************************************************)
\* A stamp.yaml: absent, present but not loadable, or a map of variables.
ConfigAbsent == [state |-> "absent", vars |-> <<>>]
ConfigInvalid == [state |-> "invalid", vars |-> <<>>]
ConfigFile(cvars) == [state |-> "ok", vars |-> cvars]

\* loadOptional: an absent file is an empty map, a file Load fails on an error
loadOptional(file) ==
    IF file.state = "absent" THEN [err |-> FALSE, vars |-> <<>>]
    ELSE IF file.state = "invalid" THEN [err |-> TRUE, vars |-> <<>>]
    ELSE [err |-> FALSE, vars |-> file.vars]

\* mergeConfigs keeping the base's value of a key both maps define
mergeConfigsBaseWins(base, override) ==
    [k \in DOMAIN base \cup DOMAIN override |->
        IF k \in DOMAIN base THEN base[k] ELSE override[k]]

mergeConfigs(base, override) ==
    [k \in DOMAIN base \cup DOMAIN override |->
        IF k \in DOMAIN override THEN override[k] ELSE base[k]]

\* The loop of LoadHierarchicalMultiple (config.go) over templateNames from
\* position i on: templates/<name>/stamp.yaml merged over mergedVars.
RECURSIVE mergeTemplateConfigs(_, _, _, _)
mergeTemplateConfigs(configDir, templateNames, i, mergedVars) ==
    IF i > Len(templateNames) THEN [err |-> FALSE, vars |-> mergedVars]
    ELSE LET t == loadOptional(configDir.templates[templateNames[i]]) IN
         IF t.err THEN [err |-> TRUE, vars |-> <<>>]
         ELSE mergeTemplateConfigs(configDir, templateNames, i + 1,
                                   mergeConfigs(mergedVars, t.vars))

\* LoadHierarchicalMultiple as internal/config/config.go has it
LoadHierarchicalMultiple(configDir, templateNames) ==
    LET g == loadOptional(configDir.global) IN
    IF g.err THEN [err |-> TRUE, vars |-> <<>>]
    ELSE mergeTemplateConfigs(configDir, templateNames, 1, g.vars)

loadGlobalConfig(configDir) ==
    LET g == loadOptional(configDir.global) IN
    IF g.err THEN [err |-> TRUE, vars |-> <<>>] ELSE g

\* The loop of a loader that merges sheets/<name>/stamp.yaml.
RECURSIVE mergeSheetConfigs(_, _, _, _)
mergeSheetConfigs(configDir, templateNames, i, mergedVars) ==
    IF i > Len(templateNames) THEN [err |-> FALSE, vars |-> mergedVars]
    ELSE LET t == loadOptional(configDir.sheets[templateNames[i]]) IN
         IF t.err THEN [err |-> TRUE, vars |-> <<>>]
         ELSE mergeSheetConfigs(configDir, templateNames, i + 1,
                                mergeConfigs(mergedVars, t.vars))

\* the later LoadHierarchicalMultiple reading the stamp.yaml of each sheet
LoadHierarchicalMultipleWithSheets(configDir, templateNames) ==
    LET g == loadGlobalConfig(configDir) IN
    IF g.err THEN g ELSE mergeSheetConfigs(configDir, templateNames, 1, g.vars)

\* LoadHierarchicalMultiple as the later version of the package has it
LoadHierarchicalMultipleGlobal(configDir, templateNames) ==
    loadGlobalConfig(configDir)

\* buildVariablesForMultipleTemplates of the command c, built with the
\* config package of the given version
buildVariablesForMultipleTemplates(c, configPkg, configDir) ==
    LET m == IF configPkg = "config.go"
             THEN LoadHierarchicalMultiple(configDir, c.Sheet)
             ELSE LoadHierarchicalMultipleGlobal(configDir, c.Sheet)
    IN  IF m.err THEN m
        ELSE [err |-> FALSE,
              vars |-> [k \in DOMAIN m.vars \cup DOMAIN c.Vars |->
                           IF k \in DOMAIN c.Vars THEN c.Vars[k] ELSE m.vars[k]]]

SheetNames == {"p", "q"}

\* the maps a stamp.yaml may hold, its values marked with their origin
ConfigMaps(val) == {[k \in S |-> val] : S \in {{"x"}, {"y"}, {"x", "y"}}}

ConfigFiles(val) ==
    {ConfigAbsent, ConfigInvalid} \cup {ConfigFile(m) : m \in ConfigMaps(val)}

\* the values of templates/<name>/stamp.yaml and of sheets/<name>/stamp.yaml
TemplateValue(n) == IF n = "p" THEN "tp" ELSE "tq"
SheetValue(n) == IF n = "p" THEN "sp" ELSE "sq"

\* The config directory: stamp.yaml, templates/<name>/stamp.yaml, and the
\* stamp.yaml lying in the sheet directory sheets/<name>.
ConfigDirs ==
    {[global |-> g, templates |-> t, sheets |-> sh] :
        g \in ConfigFiles("g"),
        t \in {f \in [SheetNames -> UNION {ConfigFiles(TemplateValue(n)) : n \in SheetNames}] :
                  \A n \in SheetNames : f[n] \in ConfigFiles(TemplateValue(n))},
        sh \in {[n \in SheetNames |->
                    IF n \in S THEN ConfigFile([k \in {"x", "y"} |-> SheetValue(n)])
                    ELSE ConfigAbsent] : S \in SUBSET SheetNames}}

\* the press commands: one to MaxLayers sheets and the KEY=VALUE arguments
PressCmds ==
    {[Sheet |-> names, Vars |-> [k \in S |-> "c"]] :
        names \in UNION {[1..n -> SheetNames] : n \in 1..MaxLayers},
        S \in SUBSET {"x", "y"}}

InitPress ==
    /\ \E c \in PressCmds, d \in ConfigDirs, pkg \in {"config.go", "part_003"} :
          press = [done |-> FALSE, cmd |-> c, configDir |-> d, configPkg |-> pkg,
                   mergedVars |-> [err |-> FALSE, vars |-> <<>>]]
    /\ stamper = New(<<>>, <<>>)
    /\ RunIdle
    /\ ClassifyIdle
    /\ ExtractIdle

\* PressCmd.Run from buildVariablesForMultipleTemplates to stamp.New
BuildVariables ==
    /\ ~press.done
    /\ LET m == buildVariablesForMultipleTemplates(press.cmd, press.configPkg,
                                                   press.configDir)
       IN  /\ press' = [press EXCEPT !.done = TRUE, !.mergedVars = m]
           /\ stamper' = IF m.err THEN stamper ELSE New(m.vars, DefaultExt)
    /\ UNCHANGED <<srcDirs, fs, fs0, runs, handles, pc, layer, walk, walkPos, varUsage, err,
                   cpath, chandler, cscanned, cext, tree, nesting, extracted>>

NextPress == BuildVariables

SpecPress == InitPress /\ [][NextPress]_vars

(***************************************************************************)
(* Claims about the choice of handler (SpecClassify)                       *)
(***************************************************************************)
\* s ends with t
EndsWith(s, t) == \E i \in 0..Len(s) : SubSeq(s, i + 1, Len(s)) = t

\* the suffix in force for the configured extension
ConfiguredSuffix == IF cext = <<>> THEN DefaultExt ELSE cext

EndsFrozen == EndsWith(cpath, ConfiguredSuffix \o NoopExt)

EndsTemplate == EndsWith(cpath, ConfiguredSuffix)

\* C5: every path gets exactly one handler: the frozen copy iff the path ends
\* with suffix + ".noop", the renderer iff it ends with the suffix and is not
\* frozen, the plain copy iff neither; the frozen test wins when both suffix
\* tests match; an empty configured suffix stands for ".stamp".
C5_ClassifierTotalExclusive ==
    chandler # "none" =>
        /\ chandler \in {"processTmplNoop", "processTemplate", "copyFile"}
        /\ (chandler = "processTmplNoop") <=> EndsFrozen
        /\ (chandler = "processTemplate") <=> (EndsTemplate /\ ~EndsFrozen)
        /\ (chandler = "copyFile") <=> (~EndsTemplate /\ ~EndsFrozen)

\* a path matching both suffix tests was given to the frozen copy
C5_Witness ==
    /\ chandler = "processTmplNoop"
    /\ EndsFrozen
    /\ EndsTemplate

(***************************************************************************)
(* Claims about extraction (SpecExtract)                                   *)
(***************************************************************************)
\* The nodes directly below n in the parse tree, whatever n's type.
Children(n) ==
    CASE n.type = "List" -> Range(n.Nodes)
      [] n.type = "Action" -> {n.Pipe}
      [] n.type = "Pipe" -> Range(n.Cmds)
      [] n.type = "Command" -> Range(n.Args)
      [] n.type \in BranchTypes -> {n.Pipe, n.List, n.ElseList}
      [] n.type = "Template" -> {n.Pipe}
      [] n.type = "Chain" -> {n.Node}
      [] OTHER -> {}

\* n and every node below it
RECURSIVE Descendants(_)
Descendants(n) == {n} \cup UNION {Descendants(c) : c \in Children(n)}

\* n and every node below it that is not inside a ChainNode
RECURSIVE OutsideChains(_)
OutsideChains(n) ==
    IF n.type = "Chain" THEN {n}
    ELSE {n} \cup UNION {OutsideChains(c) : c \in Children(n)}

FieldsOf(nodes) == {f \in nodes : f.type = "Field"}

Extracted == Range(extracted.vars)

\* C8: the extracted set holds the first segment of every field reference
\* found in the condition, the body or the else arm of any if, range or with,
\* at any depth.
C8_BranchInsensitive ==
    extracted.done =>
        \A b \in Descendants(tree) :
            b.type \in BranchTypes =>
                \A f \in FieldsOf(Descendants(b)) : f.Ident[1] \in Extracted

\* C9: a field reference a.b.c adds a and nothing else: every extracted name
\* is the first segment of some field reference of the template, every field
\* reference outside a parenthesised chain has its first segment extracted,
\* and no name is extracted twice.
C9_FirstSegmentOnly ==
    extracted.done =>
        /\ \A v \in Extracted :
              \E f \in FieldsOf(Descendants(tree)) : f.Ident[1] = v
        /\ \A f \in FieldsOf(OutsideChains(tree)) : f.Ident[1] \in Extracted
        /\ Cardinality(Extracted) = Len(extracted.vars)

\* .b.c was extracted as b alone, and .a, referenced twice, once
C9_Witness ==
    /\ extracted.done
    /\ FieldNode(<<"b", "c">>) \in Descendants(tree)
    /\ "b" \in Extracted
    /\ "c" \notin Extracted
    /\ \E n \in Descendants(tree) :
          /\ n.type \in BranchTypes
          /\ FieldNode(<<"a">>) \in Descendants(n.Pipe)
          /\ FieldNode(<<"a">>) \in Descendants(n.List)
    /\ Len(SelectSeq(extracted.vars, LAMBDA v : v = "a")) = 1

(***************************************************************************)
(* Claims about validation (Spec)                                          *)
(***************************************************************************)
\* the name of the file at a relative path
NameOf(rel) == rel[Len(rel)]

IsFrozenRel(rel) == EndsWith(NameOf(rel), stamper.templateExt \o NoopExt)

IsTemplateRel(rel) == EndsWith(NameOf(rel), stamper.templateExt) /\ ~IsFrozenRel(rel)

\* the files of sheet i, by relative path
FilesOfSheet(i) == {rel \in DOMAIN srcDirs[i].tree : ~srcDirs[i].tree[rel].isDir}

\* Sheet i's file rel is an expandable template that can be read and parsed.
ParseableTemplate(i, rel) ==
    /\ IsTemplateRel(rel)
    /\ srcDirs[i].tree[rel].readable
    /\ ~Parse(srcDirs[i].tree[rel].data).err

\* the variables extracted from sheet i's parseable template rel
VarsOfFile(i, rel) == Range(varsOfTree(Parse(srcDirs[i].tree[rel].data).Root))

Keys == DOMAIN stamper.templateVars

\* the (sheet, file) pairs whose template references v
Referencing(v) ==
    {t \in UNION {{<<i, rel>> : rel \in FilesOfSheet(i)} : i \in 1..Len(srcDirs)} :
        ParseableTemplate(t[1], t[2]) /\ v \in VarsOfFile(t[1], t[2])}

\* every variable some parseable in-scope template of some sheet references
AllReferenced ==
    UNION {VarsOfFile(i, rel) : <<i, rel>> \in
              {t \in UNION {{<<i, rel>> : rel \in FilesOfSheet(i)} : i \in 1..Len(srcDirs)} :
                  ParseableTemplate(t[1], t[2])}}

AllSheetsAreDirs == \A i \in 1..Len(srcDirs) : srcDirs[i].kind = "dir"

Validated == pc # "start"

ValidationFailed == pc = "failed" /\ err.kind = "ValidationError"

\* C1: when the run returns a ValidationError the destination is as it was
\* before the run (its root not created, nothing under it created or
\* changed), and nothing is written before validation has returned.
C1_NoWriteOnValidationError ==
    /\ ValidationFailed => fs = fs0
    /\ ~Validated => fs = fs0

\* validation failed on a sheet that also holds a plain file, the
\* destination being absent before and after
C1_Witness ==
    /\ ValidationFailed
    /\ fs0 = <<>>
    /\ DestRoot \notin DOMAIN fs
    /\ \E i \in 1..Len(srcDirs) :
          /\ <<NameA>> \in FilesOfSheet(i)
          /\ \E rel \in FilesOfSheet(i) : ParseableTemplate(i, rel)

\* C2: over existing sheet directories, validation succeeds iff every
\* variable extracted from every parseable expandable template of every sheet
\* is a key of the variable set, earlier sheets included.
C2_ValidationIffAllSupplied ==
    (Validated /\ Len(srcDirs) > 0 /\ AllSheetsAreDirs) =>
        ((err.kind # "ValidationError" /\ err.kind # "scan")
            <=> \A i \in 1..Len(srcDirs) :
                    \A rel \in FilesOfSheet(i) :
                        ParseableTemplate(i, rel) => VarsOfFile(i, rel) \subseteq Keys)

\* validation failed for a variable only the first sheet's a.stamp references,
\* the second sheet holding a file with the same output path
C2_Witness ==
    /\ ValidationFailed
    /\ Len(srcDirs) = 2
    /\ AllSheetsAreDirs
    /\ <<NameTemplate>> \in FilesOfSheet(1)
    /\ ParseableTemplate(1, <<NameTemplate>>)
    /\ ~(VarsOfFile(1, <<NameTemplate>>) \subseteq Keys)
    /\ FilesOfSheet(2) # {}
    /\ FilesOfSheet(2) \subseteq {<<NameTemplate>>, <<NameA>>}
    /\ \A rel \in FilesOfSheet(2) :
          ParseableTemplate(2, rel) => VarsOfFile(2, rel) \subseteq Keys

\* the place of sheet i's file rel among the files referencing v: sheets in
\* list order, the files of a sheet in walk order
PlaceOf(v, i, rel) ==
    1 + Cardinality({t \in Referencing(v) :
            t[1] < i \/ (t[1] = i /\ WalkBefore(t[2], rel))})

\* C3: the ValidationError's MissingVars has exactly the referenced variables
\* that are not keys; the list of each holds one sheet-relative path for every
\* (sheet, file) referencing it, in sheet order and then walk order.
C3_MissingVarsExact ==
    ValidationFailed =>
        /\ DOMAIN err.MissingVars = AllReferenced \ Keys
        /\ \A v \in DOMAIN err.MissingVars :
              /\ Len(err.MissingVars[v]) = Cardinality(Referencing(v))
              /\ \A t \in Referencing(v) :
                    err.MissingVars[v][PlaceOf(v, t[1], t[2])] = RelStr(t[2])

\* y is missing and x supplied; the report for y lists d/a.stamp of the first
\* sheet before a.stamp of the second
C3_Witness ==
    /\ ValidationFailed
    /\ "x" \in Keys
    /\ "x" \in AllReferenced
    /\ DOMAIN err.MissingVars = {"y"}
    /\ err.MissingVars["y"] =
          <<RelStr(<<NameD, NameTemplate>>), RelStr(<<NameTemplate>>)>>
    /\ <<NameD, NameTemplate>> \in FilesOfSheet(1)

(***************************************************************************)
(* Claims about the application of the sheets (Spec)                       *)
(***************************************************************************)
\* s without its last n elements
Chop(s, n) == SubSeq(s, 1, Len(s) - n)

\* the output path of the file at rel, relative to the destination
OutRel(rel) ==
    IF IsFrozenRel(rel) THEN Chop(RelStr(rel), Len(NoopExt))
    ELSE IF IsTemplateRel(rel) THEN Chop(RelStr(rel), Len(stamper.templateExt))
    ELSE RelStr(rel)

OutPath(rel) == DestRoot \o <<"/">> \o OutRel(rel)

\* what sheet i's file rel writes: its expansion if it is an expandable
\* template, else its bytes
OutData(i, rel) ==
    LET file == srcDirs[i].tree[rel] IN
    IF IsTemplateRel(rel)
    THEN Execute(Parse(file.data), stamper.templateVars).out
    ELSE file.data

\* the files of sheet i whose output path is p
Producing(i, p) == {rel \in FilesOfSheet(i) : OutPath(rel) = p}

OutputPaths == {OutPath(t[2]) : t \in
    UNION {{<<i, rel>> : rel \in FilesOfSheet(i)} : i \in 1..Len(srcDirs)}}

\* the last sheet with a file for p, and the last such file of its walk
LastSheet(p) ==
    CHOOSE i \in 1..Len(srcDirs) :
        /\ Producing(i, p) # {}
        /\ \A j \in 1..Len(srcDirs) : Producing(j, p) # {} => j <= i

LastFile(i, p) ==
    CHOOSE rel \in Producing(i, p) :
        \A other \in Producing(i, p) \ {rel} : WalkBefore(other, rel)

\* C4: after a successful run every output path some sheet produces holds
\* what the last sheet producing it writes there, whatever earlier sheets or
\* the destination held.
C4_LastWriterWins ==
    pc = "done" =>
        \A p \in OutputPaths :
            /\ p \in DOMAIN fs
            /\ fs[p] = FileEntry(OutData(LastSheet(p), LastFile(LastSheet(p), p)))

\* both sheets produced D/a with different content and the second's remains
C4_Witness ==
    /\ pc = "done"
    /\ Len(srcDirs) = 2
    /\ LET p == Join(DestRoot, NameA) IN
        /\ Producing(1, p) # {}
        /\ Producing(2, p) # {}
        /\ OutData(1, LastFile(1, p)) # OutData(2, LastFile(2, p))
        /\ fs[p].data = OutData(2, LastFile(2, p))

\* the step of the walk on a frozen template that returns no error
FrozenStep ==
    /\ pc = "walk"
    /\ ~Entry.isDir
    /\ IsFrozenRel(Entry.rel)
    /\ pc' # "failed"

\* C6: validation's usage index counts no frozen template, so a run over
\* frozen templates alone with no variables does not fail; applying a frozen
\* template writes its bytes unchanged at its path without the trailing
\* ".noop", the template suffix kept.
C6_FrozenNotScannedCopiedRaw ==
    /\ [](  (Validated /\ Len(srcDirs) > 0 /\ AllSheetsAreDirs) =>
              /\ DOMAIN varUsage = AllReferenced
              /\ \A v \in DOMAIN varUsage :
                    Len(varUsage[v]) = Cardinality(Referencing(v))
              /\ (Keys = {} /\ \A i \in 1..Len(srcDirs) :
                                  \A rel \in FilesOfSheet(i) : IsFrozenRel(rel))
                    => pc # "failed" )
    /\ [][ FrozenStep =>
              LET out == Chop(DestRoot \o <<"/">> \o RelStr(Entry.rel), Len(NoopExt)) IN
              /\ EndsWith(out, stamper.templateExt)
              /\ fs' = Put(fs, out, FileEntry(Entry.file.data)) ]_vars

\* a run without variables over a frozen template mentioning x succeeded and
\* left the template's bytes at a.stamp
C6_Witness ==
    /\ pc = "done"
    /\ Keys = {}
    /\ \E i \in 1..Len(srcDirs) : <<NameFrozen>> \in FilesOfSheet(i)
    /\ varUsage = <<>>
    /\ Join(DestRoot, NameTemplate) \in DOMAIN fs
    /\ fs[Join(DestRoot, NameTemplate)] = FileEntry(SrcField)
    /\ Join(DestRoot, NameFrozen) \notin DOMAIN fs

\* the directories of sheet i below its root, by relative path
DirsOfSheet(i) == {rel \in DOMAIN srcDirs[i].tree : srcDirs[i].tree[rel].isDir}

\* a step of the walk that returns no error
WalkStep == pc = "walk" /\ pc' # "failed"

\* C7: a step of the walk on a file writes one file, at the same relative
\* directory: a plain file under its name with its bytes, a template under its
\* name without the suffix with its expansion; a step on a directory leaves
\* that directory in the destination; after a successful run every file,
\* hidden ones and stamp.yaml included, has its output and every directory its
\* mirror, and nothing else was added.
C7_OneOutputPerFile ==
    /\ [][ WalkStep =>
              IF Entry.isDir
              THEN LET d == Join(DestRoot, RelStr(Entry.rel)) IN
                   fs' = IF d \in DOMAIN fs THEN fs ELSE Put(fs, d, DirEntry)
              ELSE /\ fs' = Put(fs, OutPath(Entry.rel),
                                FileEntry(OutData(layer, Entry.rel)))
                   /\ ParentDir(OutPath(Entry.rel))
                          = ParentDir(Join(DestRoot, RelStr(Entry.rel))) ]_vars
    /\ [](pc = "done" =>
            /\ \A i \in 1..Len(srcDirs) :
                  /\ \A rel \in FilesOfSheet(i) :
                        OutPath(rel) \in DOMAIN fs /\ ~fs[OutPath(rel)].isDir
                  /\ \A rel \in DirsOfSheet(i) :
                        IsDirAt(fs, Join(DestRoot, RelStr(rel)))
            /\ DOMAIN fs = DOMAIN fs0 \cup OutputPaths
                  \cup UNION {{Join(DestRoot, RelStr(rel)) : rel \in DirsOfSheet(i)}
                                 : i \in 1..Len(srcDirs)})

\* a hidden file and d/stamp.yaml were copied under their names
C7_Witness ==
    /\ pc = "done"
    /\ \E i \in 1..Len(srcDirs) : <<NameHidden>> \in FilesOfSheet(i)
    /\ \E i \in 1..Len(srcDirs) : <<NameD, NameConfig>> \in FilesOfSheet(i)
    /\ Join(DestRoot, NameHidden) \in DOMAIN fs
    /\ Join(DestRoot, RelStr(<<NameD, NameConfig>>)) \in DOMAIN fs
    /\ fs[Join(DestRoot, RelStr(<<NameD, NameConfig>>))] = FileEntry(SrcField)
    /\ IsDirAt(fs, Join(DestRoot, NameD))

\* the step on which the application of a sheet fails
FailingStep == pc \in {"stat", "walk"} /\ pc' = "failed"

\* C10 as stated: the failing step leaves the destination as the completed
\* writes before it made it.
C10_FailingStepWritesNothing == [][FailingStep => fs' = fs]_vars

\* C10: the failing step leaves the destination as the completed writes before
\* it made it, except that a template whose expansion fails has created or
\* truncated its own output path, which holds the output up to the failure;
\* nothing is restored, and the run ends with the failing step.
C10_NoRollbackNoContinue ==
    /\ [][ FailingStep =>
              \/ fs' = fs
              \/ /\ pc = "walk"
                 /\ err'.cause = "execute"
                 /\ IsTemplateRel(Entry.rel)
                 /\ fs' = Put(fs, OutPath(Entry.rel),
                              FileEntry(OutData(layer, Entry.rel))) ]_vars
    /\ [][pc = "failed" => pc' = "failed" /\ fs' = fs]_vars
    /\ [](pc = "failed" => ~ENABLED Next)

\* the second sheet's a.stamp failed in its expansion after the first sheet's
\* file a was written: D/a holds the template's output up to the failure
C10_Witness ==
    /\ pc = "failed"
    /\ err.kind = "process"
    /\ err.cause = "execute"
    /\ err.layer = 2
    /\ FilesOfSheet(1) = {<<NameA>>}
    /\ FilesOfSheet(2) = {<<NameTemplate>>}
    /\ OutData(1, <<NameA>>) = SrcField
    /\ fs[Join(DestRoot, NameA)] = FileEntry(<<"p">>)

(***************************************************************************)
(* Claims about the sheets given to ExecuteMultiple (Spec)                 *)
(***************************************************************************)
\* C11: with an empty list of source directories the run fails at once with
\* the error for no sources: nothing was scanned, the destination is as it
\* was before the run, and the run never goes on to create it.
C11_EmptyListRejected ==
    (Len(srcDirs) = 0 /\ Validated) =>
        /\ pc = "failed"
        /\ err.kind = "noSources"
        /\ varUsage = <<>>
        /\ fs = fs0

\* the run over no sheets failed and the destination is still absent
C11_Witness ==
    /\ Len(srcDirs) = 0
    /\ pc = "failed"
    /\ err.kind = "noSources"
    /\ fs0 = <<>>
    /\ DestRoot \notin DOMAIN fs

SomeSheetMissing == \E i \in 1..Len(srcDirs) : srcDirs[i].kind = "missing"

\* C12: when some sheet of the list does not exist, at whatever position,
\* the run fails in the scan and the destination is as it was before the run:
\* its root not created, no file of an earlier sheet written.
C12_MissingSheetNoWrites ==
    SomeSheetMissing =>
        /\ fs = fs0
        /\ Validated => (pc = "failed" /\ err.kind = "scan")

\* the second sheet is missing, the first holds a plain file, and the run
\* failed without creating the destination
C12_Witness ==
    /\ pc = "failed"
    /\ Len(srcDirs) = 2
    /\ srcDirs[1].kind = "dir"
    /\ <<NameA>> \in FilesOfSheet(1)
    /\ srcDirs[2].kind = "missing"
    /\ fs0 = <<>>
    /\ DestRoot \notin DOMAIN fs

(***************************************************************************)
(* Claims about malformed templates (Spec)                                 *)
(***************************************************************************)
\* Sheet i's file rel is an expandable template that is read but not parsed.
Malformed(i, rel) ==
    /\ IsTemplateRel(rel)
    /\ srcDirs[i].tree[rel].readable
    /\ Parse(srcDirs[i].tree[rel].data).err

HasMalformed ==
    \E i \in 1..Len(srcDirs) : \E rel \in FilesOfSheet(i) : Malformed(i, rel)

\* the step of the walk on a malformed template
MalformedStep ==
    /\ pc = "walk"
    /\ ~Entry.isDir
    /\ Malformed(layer, Entry.rel)

\* C13: a run over sheets holding a malformed expandable template never
\* succeeds: if another template lacks a variable it fails with the
\* ValidationError and the destination untouched; otherwise validation passes,
\* and the step that reaches the malformed template fails with the parse
\* error, for that sheet, writing nothing.
C13_MalformedNeverSucceeds ==
    /\ [](HasMalformed =>
            /\ pc # "done"
            /\ ValidationFailed => fs = fs0
            /\ (Validated /\ AllSheetsAreDirs) =>
                  (err.kind \in {"ValidationError", "scan"}
                      <=> ~(AllReferenced \subseteq Keys)))
    /\ [][MalformedStep =>
            /\ pc' = "failed"
            /\ err'.kind = "process"
            /\ err'.cause = "parse"
            /\ err'.layer = layer
            /\ fs' = fs]_vars

\* the first sheet's malformed a.stamp failed the run with the parse error;
\* the second sheet's a, which has the same output path, was never applied and
\* D/a does not exist
C13_Witness ==
    /\ pc = "failed"
    /\ err.cause = "parse"
    /\ err.layer = 1
    /\ Len(srcDirs) = 2
    /\ <<NameTemplate>> \in FilesOfSheet(1)
    /\ Malformed(1, <<NameTemplate>>)
    /\ <<NameA>> \in FilesOfSheet(2)
    /\ fs0 = <<>>
    /\ Join(DestRoot, NameA) \notin DOMAIN fs

(***************************************************************************)
(* Claims about the variables of a press run (SpecPress)                   *)
(***************************************************************************)
\* the variables a stamp.yaml defines
VarsOfConfig(file) == IF file.state = "ok" THEN file.vars ELSE <<>>

\* The sources of variables from lowest to highest priority: the global
\* config, the config of each sheet in the order given, the arguments.
PressSources ==
    <<VarsOfConfig(press.configDir.global)>>
    \o [i \in 1..Len(press.cmd.Sheet) |->
           VarsOfConfig(press.configDir.templates[press.cmd.Sheet[i]])]
    \o <<press.cmd.Vars>>

\* the last source defining k
HighestSource(k) ==
    CHOOSE i \in 1..Len(PressSources) :
        /\ k \in DOMAIN PressSources[i]
        /\ \A j \in 1..Len(PressSources) : k \in DOMAIN PressSources[j] => j <= i

Built == press.done /\ ~press.mergedVars.err

AppliedSheet(j) ==
    /\ \A rel \in FilesOfSheet(j) : OutPath(rel) \in DOMAIN fs
    /\ \A rel \in DirsOfSheet(j) : IsDirAt(fs, Join(DestRoot, RelStr(rel)))

ValidationPassed ==
    Validated /\ err.kind \notin {"noSources", "scan", "ValidationError"}

\* the steps a run may take from one phase to the next
PhaseOrder ==
    \/ pc = "start" /\ pc' \in {"mkdir", "failed"}
    \/ pc = "mkdir" /\ pc' \in {"stat", "failed"}
    \/ pc \in {"stat", "walk"} /\ pc' \in {"stat", "walk", "done", "failed"}

\* C16: a run goes from validation to the creation of the destination root
\* to the sheets, one after the other in the order given, to its end: the
\* destination changes only once validation has passed, the sheet being
\* applied changes only to the next one, and while sheet i is applied every
\* file and directory of the sheets before it has been written.
C16_PhasesInOrder ==
    /\ [](fs # fs0 => ValidationPassed)
    /\ [](pc \in {"stat", "walk"} =>
            /\ layer \in 1..Len(srcDirs)
            /\ DestRoot \in DOMAIN fs
            /\ \A j \in 1..(layer - 1) : AppliedSheet(j))
    /\ [](pc = "done" => \A j \in 1..Len(srcDirs) : AppliedSheet(j))
    /\ [][/\ PhaseOrder
          /\ layer' \in {layer, layer + 1}
          /\ fs' # fs => pc \in {"mkdir", "stat", "walk"}]_vars

\* the walk is at a file of the second sheet that is not yet written, the
\* first sheet's files all being written
C16_Witness ==
    /\ pc = "walk"
    /\ layer = 2
    /\ FilesOfSheet(1) # {}
    /\ AppliedSheet(1)
    /\ ~Entry.isDir
    /\ OutPath(Entry.rel) \notin DOMAIN fs

(***************************************************************************)
(* Claims about what a sheet leaves alone (Spec)                           *)
(***************************************************************************)
\* the output paths of sheet i's files and the mirrors of its directories
SheetOutputs(i) == {OutPath(rel) : rel \in FilesOfSheet(i)}
SheetDirs(i) == {Join(DestRoot, RelStr(rel)) : rel \in DirsOfSheet(i)}

\* A step made while sheet `layer` is applied keeps every path there is,
\* changes files only at output paths of that sheet, and adds only such
\* files and mirrors of that sheet's directories.
SheetFrame ==
    pc \in {"stat", "walk"} =>
        \A p \in DOMAIN fs \cup DOMAIN fs' :
            IF p \in DOMAIN fs
            THEN /\ p \in DOMAIN fs'
                 /\ fs'[p].isDir = fs[p].isDir
                 /\ fs'[p] # fs[p] => p \in SheetOutputs(layer)
            ELSE \/ p \in SheetOutputs(layer) /\ ~fs'[p].isDir
                 \/ p \in SheetDirs(layer) /\ fs'[p].isDir

\* C17: applying a sheet changes only output paths of its own files and adds
\* only those and its directories: what was in the destination before the run
\* and no sheet produces keeps its content, a file an earlier sheet wrote and
\* no later sheet produced keeps what was written, and a directory there is
\* stays a directory with its entries.
C17_OnlyOwnOutputsChange ==
    /\ [][SheetFrame]_vars
    /\ [](\A p \in DOMAIN fs0 :
            /\ p \in DOMAIN fs
            /\ fs[p].isDir = fs0[p].isDir
            /\ p \notin OutputPaths => fs[p] = fs0[p])
    /\ [](pc \in {"stat", "walk", "done"} =>
            \A j \in 1..(layer - 1) : \A p \in SheetOutputs(j) :
                (\A i \in (j + 1)..layer : p \notin SheetOutputs(i)) =>
                    /\ p \in DOMAIN fs
                    /\ fs[p] = FileEntry(OutData(j, LastFile(j, p))))

\* D/a from before the run is as it was; the second sheet's d/a.stamp was
\* written into the directory the first sheet made for its d/stamp.yaml,
\* which is still there
C17_Witness ==
    /\ pc = "done"
    /\ Len(srcDirs) = 2
    /\ FilesOfSheet(1) = {<<NameD, NameConfig>>}
    /\ FilesOfSheet(2) = {<<NameD, NameTemplate>>}
    /\ Join(DestRoot, NameA) \in DOMAIN fs0
    /\ fs[Join(DestRoot, NameA)] = FileEntry(<<"old">>)
    /\ fs[OutPath(<<NameD, NameConfig>>)] = FileEntry(SrcField)
    /\ OutPath(<<NameD, NameTemplate>>) \in DOMAIN fs

(***************************************************************************)
(* Claims about a sheet that is a regular file (Spec)                      *)
(***************************************************************************)
SomeSheetIsFile == \E i \in 1..Len(srcDirs) : srcDirs[i].kind = "file"

\* C18 as stated: when some sheet of the list is a regular file the
\* destination is never touched: its root is not created and no file of any
\* sheet is written.
C18_FileSheetNoWrites == SomeSheetIsFile => fs = fs0

\* C18: when some sheet of the list is a regular file the run does not
\* succeed; the error for not being a directory comes when the loop reaches
\* that sheet, names its position, and by then the destination root is
\* created and every sheet before it is applied in full; the run ends there.
C18_FileSheetFailsWhenReached ==
    /\ SomeSheetIsFile => pc # "done"
    /\ err.kind = "notDir" =>
          /\ pc = "failed"
          /\ err.layer \in 1..Len(srcDirs)
          /\ srcDirs[err.layer].kind = "file"
          /\ DestRoot \in DOMAIN fs
          /\ \A j \in 1..(err.layer - 1) :
                srcDirs[j].kind = "dir" /\ AppliedSheet(j)
          /\ ~ENABLED Next

\* the second sheet is a regular file: the run failed on it after creating
\* the destination and writing the first sheet's file a
C18_Witness ==
    /\ pc = "failed"
    /\ err.kind = "notDir"
    /\ err.layer = 2
    /\ <<NameA>> \in FilesOfSheet(1)
    /\ fs0 = <<>>
    /\ Join(DestRoot, NameA) \in DOMAIN fs
    /\ fs[Join(DestRoot, NameA)] = FileEntry(SrcField)


(***************************************************************************)
(* Claims on the error of a failed apply step (Spec)                       *)
(***************************************************************************)

\* the errors of the apply loop
ApplyErrors == {"stat", "notDir", "process"}

\* C19: an error of the apply phase names the sheet whose step failed, by its
\* 1-based position in the list and by its source path, and that sheet is the
\* first one, in list order, with a failing step: every sheet before it was
\* applied in full.
C19_ErrorNamesFirstFailingLayer ==
    /\ [](err.kind \in ApplyErrors =>
            /\ pc = "failed"
            /\ err.layer \in 1..Len(srcDirs)
            /\ err.src = SheetName(err.layer)
            /\ \A j \in 1..(err.layer - 1) :
                  srcDirs[j].kind = "dir" /\ AppliedSheet(j))
    /\ [][FailingStep =>
            /\ err'.kind \in ApplyErrors
            /\ err'.layer = layer
            /\ err'.src = srcDirs[layer].name]_vars

C19_Witness ==
    /\ pc = "failed" /\ err.kind = "process"
    /\ err.layer = 2 /\ err.src = SheetName(2)
    /\ FilesOfSheet(1) # {} /\ AppliedSheet(1)


(***************************************************************************)
(* Claims on templates the validation scan cannot parse (Spec)             *)
(***************************************************************************)

\* C20: the validation scan skips a template that does not parse, silently:
\* it returns no error for it, the usage index holds exactly the references
\* of the templates that parse, of every sheet, one place per referencing
\* file, and a variable a valid template lacks is reported all the same.
C20_MalformedSkippedScanContinues ==
    (Validated /\ AllSheetsAreDirs /\ HasMalformed) =>
        /\ err.kind # "scan"
        /\ DOMAIN varUsage = AllReferenced
        /\ \A v \in DOMAIN varUsage : Len(varUsage[v]) = Cardinality(Referencing(v))
        /\ AllReferenced \ Keys # {} =>
              /\ ValidationFailed
              /\ DOMAIN err.MissingVars = AllReferenced \ Keys

\* the first sheet's only template is malformed, and a variable that a valid
\* template of the second sheet references and the variable set lacks is
\* reported
C20_Witness ==
    /\ ValidationFailed
    /\ Len(srcDirs) = 2 /\ AllSheetsAreDirs
    /\ \E rel \in FilesOfSheet(1) : Malformed(1, rel)
    /\ \A rel \in FilesOfSheet(1) : ~ParseableTemplate(1, rel)
    /\ \E rel \in FilesOfSheet(2) :
          /\ ParseableTemplate(2, rel)
          /\ \E v \in VarsOfFile(2, rel) : v \notin Keys /\ v \in DOMAIN err.MissingVars


(***************************************************************************)
(* Claims on a template the validation scan cannot read (Spec)             *)
(***************************************************************************)

\* some sheet holds an expandable template that cannot be read
HasUnreadableTemplate ==
    \E i \in 1..Len(srcDirs) :
        \E rel \in FilesOfSheet(i) :
            IsTemplateRel(rel) /\ ~srcDirs[i].tree[rel].readable

\* C21: a failure to read an in-scope template during the validation scan
\* ends the run there, with the scan's error: the destination root is not
\* created and no file is written.
C21_ReadFailureEndsValidation ==
    (Validated /\ AllSheetsAreDirs /\ HasUnreadableTemplate) =>
        /\ pc = "failed"
        /\ err.kind = "scan"
        /\ fs = fs0


(***************************************************************************)
(* Claims on sub-templates and scoped blocks (SpecTwice)                   *)
(***************************************************************************)

\* the template invocations of the parsed template t
Invocations(t) == {n \in Descendants(t.Root) : n.type = "Template"}

\* The first segments of the field references in the arguments of t's
\* template invocations and in the bodies of the templates that t defines
\* and invokes.
SubTemplateVars(t) ==
    {f.Ident[1] : f \in FieldsOf(
        UNION {Descendants(n.Pipe) : n \in Invocations(t)}
        \cup UNION {Descendants(t.Defs[n.Name]) :
                        n \in {m \in Invocations(t) : m.Name \in DOMAIN t.Defs}})}

\* C22: the variables referenced in the argument of a sub-template
\* invocation and in the body of a sub-template that the file defines and
\* invokes are extracted, so that validation fails when one of them is not
\* supplied.
C22_SubTemplateVarsRequired ==
    Validated =>
        \A i \in 1..Len(srcDirs) :
            \A rel \in FilesOfSheet(i) :
                ParseableTemplate(i, rel) =>
                    LET t == Parse(srcDirs[i].tree[rel].data) IN
                    /\ SubTemplateVars(t) \subseteq DOMAIN varUsage
                    /\ ~(SubTemplateVars(t) \subseteq Keys) => ValidationFailed


\* The first segments of the field references in the bodies of the with and
\* range blocks of the parsed template t.
ScopedBodyVars(t) ==
    {f.Ident[1] : f \in FieldsOf(
        UNION {OutsideChains(b.List) :
                  b \in {n \in Descendants(t.Root) : n.type \in {"With", "Range"}}})}

\* C23: a field reference in the body of a with or range block is recorded
\* as a variable like one outside any block, and validation fails unless it
\* is a key of the variable set.
C23_ScopeInsensitive ==
    Validated =>
        \A i \in 1..Len(srcDirs) :
            \A rel \in FilesOfSheet(i) :
                ParseableTemplate(i, rel) =>
                    LET t == Parse(srcDirs[i].tree[rel].data) IN
                    /\ ScopedBodyVars(t) \subseteq DOMAIN varUsage
                    /\ ~(ScopedBodyVars(t) \subseteq Keys) =>
                          /\ ValidationFailed
                          /\ ScopedBodyVars(t) \ Keys \subseteq DOMAIN err.MissingVars

\* validation failed for y, which only the body of {{with .x}} references,
\* x being supplied
C23_Witness ==
    /\ ValidationFailed
    /\ fs = fs0
    /\ Len(srcDirs) = 1
    /\ FilesOfSheet(1) = {<<NameTemplate>>}
    /\ srcDirs[1].tree[<<NameTemplate>>].data = SrcWith
    /\ Keys = {"x"}
    /\ DOMAIN err.MissingVars = {"y"}


(***************************************************************************)
(* Claims on the destination's file handles (Spec)                         *)
(***************************************************************************)

\* C24: at most one destination file is open at a time, and none is open
\* between two files or when ExecuteMultiple has returned, whether the
\* handler of the file succeeded, failed to render or failed to write.
C24_OneHandleReleased ==
    /\ handles.peak <= 1
    /\ handles.open = 0

\* the run failed in the execution of a template after an earlier file was
\* written, each through a handle of its own
C24_Witness ==
    /\ pc = "failed"
    /\ err.cause = "execute"
    /\ err.layer = 2
    /\ FilesOfSheet(1) # {}
    /\ handles = [open |-> 0, peak |-> 1]


(***************************************************************************)
(* Claims on a second run over the destination of the first (SpecTwice)    *)
(***************************************************************************)

\* C25: making a directory that exists succeeds (it fails only where a
\* regular file is in the way), and a run on the destination that a
\* successful run with the same arguments left succeeds and leaves the
\* destination as it found it.
C25_Idempotent ==
    /\ err.cause = "mkdir" =>
          /\ pc = "failed"
          /\ walk # <<>>
          /\ DestPath \in DOMAIN fs
          /\ ~fs[DestPath].isDir
    /\ runs > 1 =>
          /\ pc # "failed"
          /\ pc = "done" => fs = fs0

\* the second run is done over a destination that held a directory before
\* the first, with a mirrored directory and a rendered template
C25_Witness ==
    /\ runs = 2
    /\ pc = "done"
    /\ fs = fs0
    /\ <<NameD, NameA>> \in FilesOfSheet(1)
    /\ Len(srcDirs) = 2
    /\ <<NameTemplate>> \in FilesOfSheet(2)
    /\ IsDirAt(fs, Join(DestRoot, NameD))
    /\ Join(DestRoot, NameA) \in DOMAIN fs
    /\ ~fs[Join(DestRoot, NameA)].isDir


(***************************************************************************)
(* Claims on the validator's and the applier's classification              *)
(* (SpecClassify)                                                          *)
(***************************************************************************)

\* C26: a file is scanned by validation if and only if the applier gives it
\* to the renderer; a file that is copied, frozen or plain, is not scanned.
C26_ScannedIffRendered ==
    chandler # "none" =>
        /\ cscanned <=> chandler = "processTemplate"
        /\ chandler \in {"copyFile", "processTmplNoop"} => ~cscanned

\* a frozen file whose path ends with the template suffix as well (the
\* suffix being .noop or p) is not scanned
C26_Witness ==
    /\ chandler = "processTmplNoop"
    /\ ~cscanned
    /\ HasSuffix(cpath, stamper.templateExt)


(***************************************************************************)
(* Claims on the output of a template that fails (Spec)                    *)
(***************************************************************************)

\* the text of a template before its first action
RECURSIVE LeadingText(_)
LeadingText(nodes) ==
    IF nodes = <<>> \/ Head(nodes).type # "Text" THEN <<>>
    ELSE <<Head(nodes).Text>> \o LeadingText(Tail(nodes))

\* the step of the walk fails with the wrapped cause c
FailsWith(c) == pc = "walk" /\ pc' = "failed" /\ err'.cause = c

\* C27: when the execution of a template fails the output path exists and
\* holds the output produced before the failure and nothing else, whatever
\* was there before (from the destination or an earlier sheet) is lost;
\* when the template does not parse the step changes nothing.
C27_ExecuteFailureTruncates ==
    /\ [](pc = "failed" /\ err.cause = "execute" =>
            /\ walk # <<>>
            /\ OutPath(Entry.rel) \in DOMAIN fs
            /\ fs[OutPath(Entry.rel)] =
                  FileEntry(LeadingText(Parse(Entry.file.data).Root.Nodes)))
    /\ [][FailsWith("execute") =>
            /\ OutPath(Entry.rel) \in DOMAIN fs =>
                  fs'[OutPath(Entry.rel)] # fs[OutPath(Entry.rel)]
            /\ \A p \in DOMAIN fs \ {OutPath(Entry.rel)} :
                  p \in DOMAIN fs' /\ fs'[p] = fs[p]]_vars
    /\ [][FailsWith("parse") => fs' = fs]_vars

\* the execution of a.stamp failed over the file a that the destination
\* held before the run: D/a holds the text before the failing action
C27_Witness ==
    /\ pc = "failed"
    /\ err.cause = "execute"
    /\ Join(DestRoot, NameA) \in DOMAIN fs0
    /\ fs0[Join(DestRoot, NameA)] = FileEntry(<<"old">>)
    /\ fs[Join(DestRoot, NameA)] = FileEntry(<<"p">>)


(***************************************************************************)
(* Claims on a file and a directory meeting at one path (SpecTwice)        *)
(***************************************************************************)

\* The walk is at a directory where the destination holds a regular file, or
\* at a file whose output path is a directory of the destination.
Conflict ==
    /\ pc = "walk"
    /\ IF Entry.isDir
       THEN DestPath \in DOMAIN fs /\ ~fs[DestPath].isDir
       ELSE OutPath(Entry.rel) \in DOMAIN fs /\ fs[OutPath(Entry.rel)].isDir

\* C28: a directory of a sheet does not replace a regular file that an
\* earlier sheet or the destination has at its path, nor a file a directory:
\* the step fails with an error naming the sheet, and the destination stays
\* as the writes before it left it.
C28_NoReplaceAcrossKinds ==
    [][Conflict =>
          /\ pc' = "failed"
          /\ err'.kind = "process"
          /\ err'.layer = layer
          /\ err'.src = srcDirs[layer].name
          /\ fs' = fs]_vars

\* the second sheet's directory d met the file d that the first sheet wrote,
\* which is still there
C28_Witness ==
    /\ pc = "failed"
    /\ err.cause = "mkdir"
    /\ err.layer = 2
    /\ fs0 = <<>>
    /\ FilesOfSheet(1) = {<<NameD>>}
    /\ fs[Join(DestRoot, NameD)] = FileEntry(SrcField)


(***************************************************************************)
(* Claims on two files of one sheet with one output path (Spec)            *)
(***************************************************************************)

IsProperPrefix(a, b) == Len(a) < Len(b) /\ SubSeq(b, 1, Len(a)) = a

\* The files of sheet i that have the output path of its file rel and whose
\* path is a proper prefix of rel's: the plain a.txt for the template
\* a.txt<suffix>.
ShadowedBy(i, rel) ==
    {other \in Producing(i, OutPath(rel)) :
        IsProperPrefix(RelStr(other), RelStr(rel))}

\* C29: of two files of one sheet with the same output path, the plain
\* a.txt and the template a.txt<suffix>, the plain one is processed first
\* and the template last: when the walk comes to the template the output
\* path holds the plain file's bytes, the template's expansion replaces
\* them, and that is what the sheet leaves there.
C29_SameSheetLastVisitedWins ==
    /\ [][(pc = "walk" /\ ~Entry.isDir) =>
            \A other \in ShadowedBy(layer, Entry.rel) :
                /\ OutPath(Entry.rel) \in DOMAIN fs
                /\ fs[OutPath(Entry.rel)] = FileEntry(OutData(layer, other))
                /\ pc' # "failed" =>
                      fs'[OutPath(Entry.rel)] = FileEntry(OutData(layer, Entry.rel))]_vars
    /\ [](pc = "done" =>
            \A rel \in FilesOfSheet(Len(srcDirs)) :
                ShadowedBy(Len(srcDirs), rel) # {} =>
                    fs[OutPath(rel)] = FileEntry(OutData(Len(srcDirs), rel)))

\* one sheet held a and a.stamp: D/a holds the expansion of a.stamp, not the
\* bytes of a
C29_Witness ==
    /\ pc = "done"
    /\ Len(srcDirs) = 1
    /\ FilesOfSheet(1) = {<<NameA>>, <<NameTemplate>>}
    /\ fs[Join(DestRoot, NameA)] = FileEntry(<<"v=", "1">>)
    /\ OutData(1, <<NameA>>) = SrcField


(***************************************************************************)
(* Claims on empty values and on the Stamper's map (SpecTwice)             *)
(***************************************************************************)

\* the last sheet's a.stamp is v={{.x}} and no other file of it writes D/a
LastWritesField ==
    /\ <<NameTemplate>> \in FilesOfSheet(Len(srcDirs))
    /\ srcDirs[Len(srcDirs)].tree[<<NameTemplate>>].data = SrcField

\* C30: validation tests the presence of the key only: it fails exactly when
\* an extracted variable is not a key, a key with the empty value counting
\* as supplied; the template referencing such a key is rendered with the
\* empty value; and no step of the run changes the Stamper's map.
C30_PresenceOnlyMapUnchanged ==
    /\ [][stamper' = stamper]_vars
    /\ [](Validated => (ValidationFailed <=> ~(AllReferenced \subseteq Keys)))
    /\ [](ValidationFailed => \A v \in DOMAIN err.MissingVars : v \notin Keys)
    /\ []((pc = "done" /\ LastWritesField /\ "x" \in Keys
              /\ stamper.templateVars["x"] = "") =>
            fs[Join(DestRoot, NameA)] = FileEntry(<<"v=">>))

\* x is supplied with the empty value and y is not supplied: a.stamp, which
\* references x alone, passed validation and was rendered as v=
C30_Witness ==
    /\ pc = "done"
    /\ runs = 1
    /\ Keys = {"x"}
    /\ stamper.templateVars["x"] = ""
    /\ Len(srcDirs) = 1
    /\ FilesOfSheet(1) = {<<NameTemplate>>}
    /\ LastWritesField
    /\ DOMAIN varUsage = {"x"}
    /\ fs[Join(DestRoot, NameA)] = FileEntry(<<"v=">>)

====
